---------------------------- MODULE Spec2Model ----------------------------
(***************************************************************************)
(* Model of the LTBase TypeScript SDK: the request signer                  *)
(* (src/auth/signer.ts), the transport client (src/api/client.ts) and the  *)
(* command layer (src/commands/commandHandler.ts).                         *)
(*                                                                         *)
(* Strings are sequences of one-character strings, byte buffers are        *)
(* sequences of integers in 0..255.                                        *)
(***************************************************************************)
EXTENDS Integers, Sequences, FiniteSets, TLC

(***************************************************************************)
(* Characters and string primitives of the JavaScript runtime.             *)
(***************************************************************************)

NL == "\n"

\* UTF-16 code unit of each character
CharCodeTable ==
    (" " :> 32) @@ ("!" :> 33) @@ ("\"" :> 34) @@ ("#" :> 35) @@ ("$" :> 36) @@ ("%" :> 37)
    @@ ("&" :> 38) @@ ("'" :> 39) @@ ("(" :> 40) @@ (")" :> 41) @@ ("*" :> 42) @@ ("+" :> 43)
    @@ ("," :> 44) @@ ("-" :> 45) @@ ("." :> 46) @@ ("/" :> 47) @@ ("0" :> 48) @@ ("1" :> 49)
    @@ ("2" :> 50) @@ ("3" :> 51) @@ ("4" :> 52) @@ ("5" :> 53) @@ ("6" :> 54) @@ ("7" :> 55)
    @@ ("8" :> 56) @@ ("9" :> 57) @@ (":" :> 58) @@ (";" :> 59) @@ ("<" :> 60) @@ ("=" :> 61)
    @@ (">" :> 62) @@ ("?" :> 63) @@ ("@" :> 64) @@ ("A" :> 65) @@ ("B" :> 66) @@ ("C" :> 67)
    @@ ("D" :> 68) @@ ("E" :> 69) @@ ("F" :> 70) @@ ("G" :> 71) @@ ("H" :> 72) @@ ("I" :> 73)
    @@ ("J" :> 74) @@ ("K" :> 75) @@ ("L" :> 76) @@ ("M" :> 77) @@ ("N" :> 78) @@ ("O" :> 79)
    @@ ("P" :> 80) @@ ("Q" :> 81) @@ ("R" :> 82) @@ ("S" :> 83) @@ ("T" :> 84) @@ ("U" :> 85)
    @@ ("V" :> 86) @@ ("W" :> 87) @@ ("X" :> 88) @@ ("Y" :> 89) @@ ("Z" :> 90) @@ ("[" :> 91)
    @@ ("\\" :> 92) @@ ("]" :> 93) @@ ("^" :> 94) @@ ("_" :> 95) @@ ("<grave>" :> 96) @@ ("a" :> 97)
    @@ ("b" :> 98) @@ ("c" :> 99) @@ ("d" :> 100) @@ ("e" :> 101) @@ ("f" :> 102) @@ ("g" :> 103)
    @@ ("h" :> 104) @@ ("i" :> 105) @@ ("j" :> 106) @@ ("k" :> 107) @@ ("l" :> 108) @@ ("m" :> 109)
    @@ ("n" :> 110) @@ ("o" :> 111) @@ ("p" :> 112) @@ ("q" :> 113) @@ ("r" :> 114) @@ ("s" :> 115)
    @@ ("t" :> 116) @@ ("u" :> 117) @@ ("v" :> 118) @@ ("w" :> 119) @@ ("x" :> 120) @@ ("y" :> 121)
    @@ ("z" :> 122) @@ ("{" :> 123) @@ ("|" :> 124) @@ ("}" :> 125) @@ ("~" :> 126) @@ ("\n" :> 10)

CharCode(c) == CharCodeTable[c]

FromCharCode(n) ==
    LET \* the printable ASCII characters, code units 32..126 in ascending order
        \* (code unit 96, the grave accent, is written "<grave>")
        Printable ==
            <<" ", "!", "\"", "#", "$", "%", "&", "'", "(", ")", "*", "+", ",", "-", ".", "/", "0", "1", "2", "3", "4", "5", "6", "7", "8", "9", ":", ";", "<", "=", ">", "?", "@", "A", "B", "C", "D", "E", "F", "G", "H", "I", "J", "K", "L", "M", "N", "O", "P", "Q", "R", "S", "T", "U", "V", "W", "X", "Y", "Z", "[", "\\", "]", "^", "_", "<grave>", "a", "b", "c", "d", "e", "f", "g", "h", "i", "j", "k", "l", "m", "n", "o", "p", "q", "r", "s", "t", "u", "v", "w", "x", "y", "z", "{", "|", "}", "~">>
    IN
                   IF n = 10 THEN NL ELSE Printable[n - 31]

toUpperCase(s) ==
    LET \* String.prototype.toUpperCase on ASCII text
        UpperChar(c) ==
            IF CharCode(c) >= 97 /\ CharCode(c) <= 122
            THEN FromCharCode(CharCode(c) - 32)
            ELSE c
    IN
                  [i \in 1..Len(s) |-> UpperChar(s[i])]

\* String.prototype.startsWith / endsWith
startsWith(s, p) == Len(s) >= Len(p) /\ SubSeq(s, 1, Len(p)) = p

endsWith(s, p) ==
    Len(s) >= Len(p) /\ SubSeq(s, Len(s) - Len(p) + 1, Len(s)) = p

\* String.prototype.slice(n) for 0 <= n
sliceFrom(s, n) == SubSeq(s, n + 1, Len(s))

\* String.prototype.slice(0, -1)
dropLast(s) == SubSeq(s, 1, Len(s) - 1)

\* String.prototype.replace(/c/g, d) for a single character c
replaceAll(s, c, d) == [i \in 1..Len(s) |-> IF s[i] = c THEN d ELSE s[i]]

\* String.prototype.indexOf(c), 1-based, 0 when absent
indexOf(s, c) ==
    IF \E i \in 1..Len(s) : s[i] = c
    THEN CHOOSE i \in 1..Len(s) : s[i] = c /\ \A j \in 1..(i - 1) : s[j] # c
    ELSE 0

\* Array.prototype.join(sep) on an array of strings
RECURSIVE join(_, _)
join(parts, sep) ==
    IF Len(parts) = 0 THEN <<>>
    ELSE IF Len(parts) = 1 THEN parts[1]
    ELSE parts[1] \o sep \o join(Tail(parts), sep)

\* String.prototype.split(c) for a single character c
RECURSIVE split(_, _)
split(s, c) ==
    IF indexOf(s, c) = 0 THEN <<s>>
    ELSE <<SubSeq(s, 1, indexOf(s, c) - 1)>> \o split(sliceFrom(s, indexOf(s, c)), c)

\* a < b on strings: comparison by UTF-16 code units
RECURSIVE stringLess(_, _)
stringLess(a, b) ==
    IF Len(b) = 0 THEN FALSE
    ELSE IF Len(a) = 0 THEN TRUE
    ELSE IF CharCode(a[1]) < CharCode(b[1]) THEN TRUE
    ELSE IF CharCode(a[1]) > CharCode(b[1]) THEN FALSE
    ELSE stringLess(Tail(a), Tail(b))

\* Number.prototype.toString() / String(n) for a non-negative integer
RECURSIVE numberToString(_)
numberToString(n) ==
    IF n < 10 THEN <<FromCharCode(48 + n)>>
    ELSE numberToString(n \div 10) \o <<FromCharCode(48 + (n % 10))>>

(***************************************************************************)
(* Buffers and base64 (node:buffer), as used by src/auth/signer.ts.        *)
(***************************************************************************)

\* Buffer.prototype.toString('base64'): standard alphabet, '=' padded.
\* Output character k belongs to the 3-byte group (k - 1) \div 4.
bufferToBase64(b) ==
    LET Base64Alphabet ==
            <<"A", "B", "C", "D", "E", "F", "G", "H", "I", "J", "K", "L", "M", "N", "O", "P", "Q", "R", "S", "T", "U", "V", "W", "X", "Y", "Z", "a", "b", "c", "d", "e", "f", "g", "h", "i", "j", "k", "l", "m", "n", "o", "p", "q", "r", "s", "t", "u", "v", "w", "x", "y", "z", "0", "1", "2", "3", "4", "5", "6", "7", "8", "9", "+", "/">>
    IN
    LET n       == Len(b)
        byte(j) == IF j <= n THEN b[j] ELSE 0
        char(k) ==
            LET g  == (k - 1) \div 4
                p  == (k - 1) % 4
                b1 == byte((3 * g) + 1)
                b2 == byte((3 * g) + 2)
                b3 == byte((3 * g) + 3)
            IN  IF p = 0 THEN Base64Alphabet[(b1 \div 4) + 1]
                ELSE IF p = 1 THEN Base64Alphabet[((b1 % 4) * 16) + (b2 \div 16) + 1]
                ELSE IF p = 2 THEN
                    IF (3 * g) + 2 > n THEN "="
                    ELSE Base64Alphabet[((b2 % 16) * 4) + (b3 \div 64) + 1]
                ELSE
                    IF (3 * g) + 3 > n THEN "="
                    ELSE Base64Alphabet[(b3 % 64) + 1]
    IN  [k \in 1..(4 * ((n + 2) \div 3)) |-> char(k)]

\* the padding left in place
keepTrailingEquals(s) == s

\* String.prototype.replace(/=+$/g, '')
stripTrailingEquals(s) ==
    IF \A i \in 1..Len(s) : s[i] = "=" THEN <<>>
    ELSE SubSeq(s, 1, CHOOSE i \in 1..Len(s) :
                          s[i] # "=" /\ \A j \in (i + 1)..Len(s) : s[j] = "=")

base64UrlToBuffer(value) ==
    LET \* value of each base64 digit; node accepts the standard and the URL-safe
        \* alphabet
        Base64ValueTable ==
    ("A" :> 0) @@ ("B" :> 1) @@ ("C" :> 2) @@ ("D" :> 3) @@ ("E" :> 4) @@ ("F" :> 5)
    @@ ("G" :> 6) @@ ("H" :> 7) @@ ("I" :> 8) @@ ("J" :> 9) @@ ("K" :> 10) @@ ("L" :> 11)
    @@ ("M" :> 12) @@ ("N" :> 13) @@ ("O" :> 14) @@ ("P" :> 15) @@ ("Q" :> 16) @@ ("R" :> 17)
    @@ ("S" :> 18) @@ ("T" :> 19) @@ ("U" :> 20) @@ ("V" :> 21) @@ ("W" :> 22) @@ ("X" :> 23)
    @@ ("Y" :> 24) @@ ("Z" :> 25) @@ ("a" :> 26) @@ ("b" :> 27) @@ ("c" :> 28) @@ ("d" :> 29)
    @@ ("e" :> 30) @@ ("f" :> 31) @@ ("g" :> 32) @@ ("h" :> 33) @@ ("i" :> 34) @@ ("j" :> 35)
    @@ ("k" :> 36) @@ ("l" :> 37) @@ ("m" :> 38) @@ ("n" :> 39) @@ ("o" :> 40) @@ ("p" :> 41)
    @@ ("q" :> 42) @@ ("r" :> 43) @@ ("s" :> 44) @@ ("t" :> 45) @@ ("u" :> 46) @@ ("v" :> 47)
    @@ ("w" :> 48) @@ ("x" :> 49) @@ ("y" :> 50) @@ ("z" :> 51) @@ ("0" :> 52) @@ ("1" :> 53)
    @@ ("2" :> 54) @@ ("3" :> 55) @@ ("4" :> 56) @@ ("5" :> 57) @@ ("6" :> 58) @@ ("7" :> 59)
    @@ ("8" :> 60) @@ ("9" :> 61) @@ ("+" :> 62) @@ ("/" :> 63) @@ ("-" :> 62) @@ ("_" :> 63)
    IN
    LET Base64Value(c) == Base64ValueTable[c]
        IsBase64Char(c) == c \in DOMAIN Base64ValueTable
        \* every 4 digits give 3 bytes, a tail of 2 or 3 digits gives 1 or 2 bytes
        base64DigitsToBytes(digits) ==
            LET d(j)   == IF j <= Len(digits) THEN Base64Value(digits[j]) ELSE 0
                r      == Len(digits) % 4
                n      == ((Len(digits) \div 4) * 3) + (IF r >= 2 THEN r - 1 ELSE 0)
                byte(k) ==
                    LET g == (k - 1) \div 3
                        p == (k - 1) % 3
                    IN  IF p = 0 THEN (d((4 * g) + 1) * 4) + (d((4 * g) + 2) \div 16)
                        ELSE IF p = 1 THEN ((d((4 * g) + 2) % 16) * 16) + (d((4 * g) + 3) \div 4)
                        ELSE ((d((4 * g) + 3) % 4) * 64) + d((4 * g) + 4)
            IN  [k \in 1..n |-> byte(k)]
        \* Buffer.from(s, 'base64'): characters outside the alphabet are skipped,
        \* decoding stops at the first '='
        bufferFromBase64(s) ==
            base64DigitsToBytes(
                SelectSeq(IF indexOf(s, "=") = 0 THEN s ELSE SubSeq(s, 1, indexOf(s, "=") - 1),
                          IsBase64Char))
        repeatChar(c, n) == [i \in 1..n |-> c]
    IN
    LET padding == IF Len(value) % 4 = 0 THEN <<>>
                   ELSE repeatChar("=", 4 - (Len(value) % 4))
        base64  == replaceAll(replaceAll(value, "-", "+"), "_", "/") \o padding
    IN  bufferFromBase64(base64)

\* both replacements writing the same character
toBase64UrlOneSymbol(buffer) ==
    stripTrailingEquals(
        replaceAll(replaceAll(bufferToBase64(buffer), "+", "-"), "/", "-"))

toBase64Url(buffer) ==
    stripTrailingEquals(
        replaceAll(replaceAll(bufferToBase64(buffer), "+", "-"), "/", "_"))

(***************************************************************************)
(* node:crypto primitives.                                                 *)
(***************************************************************************)

\* createHash('sha256').update(s).digest('hex'): the SHA-256 digests of the
\* body strings that occur in the model
Sha256Table ==
    { <<<<>>,
        <<"e", "3", "b", "0", "c", "4", "4", "2", "9", "8", "f", "c", "1", "c", "1", "4", "9", "a", "f", "b", "f", "4", "c", "8", "9", "9", "6", "f", "b", "9", "2", "4", "2", "7", "a", "e", "4", "1", "e", "4", "6", "4", "9", "b", "9", "3", "4", "c", "a", "4", "9", "5", "9", "9", "1", "b", "7", "8", "5", "2", "b", "8", "5", "5">>>>,
      <<<<"n", "u", "l", "l">>,
        <<"7", "4", "2", "3", "4", "e", "9", "8", "a", "f", "e", "7", "4", "9", "8", "f", "b", "5", "d", "a", "f", "1", "f", "3", "6", "a", "c", "2", "d", "7", "8", "a", "c", "c", "3", "3", "9", "4", "6", "4", "f", "9", "5", "0", "7", "0", "3", "b", "8", "c", "0", "1", "9", "8", "9", "2", "f", "9", "8", "2", "b", "9", "0", "b">>>>,
      <<<<"{", "}">>,
        <<"4", "4", "1", "3", "6", "f", "a", "3", "5", "5", "b", "3", "6", "7", "8", "a", "1", "1", "4", "6", "a", "d", "1", "6", "f", "7", "e", "8", "6", "4", "9", "e", "9", "4", "f", "b", "4", "f", "c", "2", "1", "f", "e", "7", "7", "e", "8", "3", "1", "0", "c", "0", "6", "0", "f", "6", "1", "c", "a", "a", "f", "f", "8", "a">>>>,
      <<<<"\"", "\"">>,
        <<"1", "2", "a", "e", "3", "2", "c", "b", "1", "e", "c", "0", "2", "d", "0", "1", "e", "d", "a", "3", "5", "8", "1", "b", "1", "2", "7", "c", "1", "f", "e", "e", "3", "b", "0", "d", "c", "5", "3", "5", "7", "2", "e", "d", "6", "b", "a", "f", "2", "3", "9", "7", "2", "1", "a", "0", "3", "d", "8", "2", "e", "1", "2", "6">>>>,
      <<<<"f", "a", "l", "s", "e">>,
        <<"f", "c", "b", "c", "f", "1", "6", "5", "9", "0", "8", "d", "d", "1", "8", "a", "9", "e", "4", "9", "f", "7", "f", "f", "2", "7", "8", "1", "0", "1", "7", "6", "d", "b", "8", "e", "9", "f", "6", "3", "b", "4", "3", "5", "2", "2", "1", "3", "7", "4", "1", "6", "6", "4", "2", "4", "5", "2", "2", "4", "f", "8", "a", "a">>>>,
      <<<<"0">>,
        <<"5", "f", "e", "c", "e", "b", "6", "6", "f", "f", "c", "8", "6", "f", "3", "8", "d", "9", "5", "2", "7", "8", "6", "c", "6", "d", "6", "9", "6", "c", "7", "9", "c", "2", "d", "b", "c", "2", "3", "9", "d", "d", "4", "e", "9", "1", "b", "4", "6", "7", "2", "9", "d", "7", "3", "a", "2", "7", "f", "b", "5", "7", "e", "9">>>>,
      <<<<"{", "\"", "o", "w", "n", "e", "r", "_", "i", "d", "\"", ":", "\"", "u", "1", "\"", ",", "\"", "s", "u", "m", "m", "a", "r", "y", "\"", ":", "\"", "s", "a", "y", " ", "\\", "\"", "h", "i", "\\", "\"", "\"", "}">>,
        <<"9", "b", "0", "f", "3", "5", "e", "8", "3", "5", "c", "2", "4", "a", "c", "b", "2", "7", "8", "8", "5", "4", "c", "b", "5", "6", "0", "4", "5", "b", "9", "3", "6", "d", "c", "4", "b", "9", "7", "7", "d", "5", "5", "c", "6", "0", "d", "7", "f", "e", "7", "5", "b", "e", "1", "d", "c", "2", "3", "a", "b", "1", "2", "9">>>>,
      <<<<"t", "r", "u", "e">>,
        <<"b", "5", "b", "e", "a", "4", "1", "b", "6", "c", "6", "2", "3", "f", "7", "c", "0", "9", "f", "1", "b", "f", "2", "4", "d", "c", "a", "e", "5", "8", "e", "b", "a", "b", "3", "c", "0", "c", "d", "d", "9", "0", "a", "d", "9", "6", "6", "b", "c", "4", "3", "a", "4", "5", "b", "4", "4", "8", "6", "7", "e", "1", "2", "b">>>>,
      <<<<"\"", "n", "u", "l", "l", "\"">>,
        <<"f", "0", "7", "2", "c", "b", "e", "c", "3", "b", "f", "8", "8", "4", "1", "8", "7", "1", "d", "4", "2", "8", "4", "2", "3", "0", "c", "5", "e", "9", "8", "3", "d", "c", "2", "1", "1", "a", "5", "6", "8", "3", "7", "a", "e", "d", "8", "6", "2", "4", "8", "7", "1", "4", "8", "f", "9", "4", "7", "d", "1", "a", "1", "f">>>>,
      <<<<"{", "\"", "i", "d", "\"", ":", "\"", "1", "7", "d", "9", "b", "d", "b", "7", "-", "a", "d", "b", "6", "-", "4", "d", "6", "c", "-", "9", "5", "d", "c", "-", "f", "f", "1", "7", "b", "5", "e", "3", "c", "7", "d", "9", "\"", ",", "\"", "l", "e", "a", "d", "I", "d", "\"", ":", "\"", "L", "1", "\"", ",", "\"", "u", "s", "e", "r", "I", "d", "\"", ":", "\"", "u", "1", "\"", ",", "\"", "p", "r", "o", "p", "e", "r", "t", "y", "I", "d", "\"", ":", "\"", "p", "1", "\"", ",", "\"", "s", "c", "h", "e", "d", "u", "l", "e", "d", "S", "t", "a", "r", "t", "A", "t", "\"", ":", "\"", "1", "9", "7", "0", "-", "0", "1", "-", "0", "1", "T", "0", "0", ":", "0", "0", ":", "0", "0", ".", "0", "0", "9", "Z", "\"", ",", "\"", "s", "t", "a", "t", "u", "s", "\"", ":", "\"", "s", "c", "h", "e", "d", "u", "l", "e", "d", "\"", ",", "\"", "c", "r", "e", "a", "t", "e", "d", "A", "t", "\"", ":", "\"", "1", "9", "7", "0", "-", "0", "1", "-", "0", "1", "T", "0", "0", ":", "0", "0", ":", "0", "0", ".", "0", "0", "9", "Z", "\"", ",", "\"", "u", "p", "d", "a", "t", "e", "d", "A", "t", "\"", ":", "\"", "1", "9", "7", "0", "-", "0", "1", "-", "0", "1", "T", "0", "0", ":", "0", "0", ":", "0", "0", ".", "0", "0", "9", "Z", "\"", "}">>,
        <<"8", "c", "4", "b", "d", "7", "9", "5", "c", "a", "a", "8", "e", "4", "b", "0", "5", "7", "c", "1", "6", "7", "3", "2", "2", "b", "c", "2", "7", "d", "f", "b", "5", "6", "e", "c", "6", "3", "3", "4", "4", "5", "3", "b", "7", "d", "d", "0", "f", "b", "b", "0", "d", "0", "e", "1", "7", "9", "1", "5", "7", "9", "c", "6">>>>,
      <<<<"{", "\"", "i", "d", "\"", ":", "\"", "1", "7", "d", "9", "b", "d", "b", "7", "-", "a", "d", "b", "6", "-", "4", "d", "6", "c", "-", "9", "5", "d", "c", "-", "f", "f", "1", "7", "b", "5", "e", "3", "c", "7", "d", "9", "\"", ",", "\"", "l", "e", "a", "d", "I", "d", "\"", ":", "\"", "L", "1", "\"", ",", "\"", "u", "s", "e", "r", "I", "d", "\"", ":", "\"", "u", "1", "\"", ",", "\"", "p", "r", "o", "p", "e", "r", "t", "y", "I", "d", "\"", ":", "\"", "p", "1", "\"", ",", "\"", "s", "c", "h", "e", "d", "u", "l", "e", "d", "S", "t", "a", "r", "t", "A", "t", "\"", ":", "\"", "1", "9", "7", "0", "-", "0", "1", "-", "0", "1", "T", "0", "0", ":", "0", "0", ":", "0", "0", ".", "0", "1", "0", "Z", "\"", ",", "\"", "s", "t", "a", "t", "u", "s", "\"", ":", "\"", "s", "c", "h", "e", "d", "u", "l", "e", "d", "\"", ",", "\"", "c", "r", "e", "a", "t", "e", "d", "A", "t", "\"", ":", "\"", "1", "9", "7", "0", "-", "0", "1", "-", "0", "1", "T", "0", "0", ":", "0", "0", ":", "0", "0", ".", "0", "1", "0", "Z", "\"", ",", "\"", "u", "p", "d", "a", "t", "e", "d", "A", "t", "\"", ":", "\"", "1", "9", "7", "0", "-", "0", "1", "-", "0", "1", "T", "0", "0", ":", "0", "0", ":", "0", "0", ".", "0", "1", "0", "Z", "\"", "}">>,
        <<"3", "f", "2", "1", "5", "0", "3", "5", "8", "2", "0", "2", "f", "6", "1", "5", "0", "7", "c", "e", "9", "e", "1", "d", "0", "d", "c", "3", "1", "8", "3", "c", "3", "b", "7", "6", "6", "6", "5", "b", "d", "b", "a", "c", "a", "0", "3", "4", "c", "5", "3", "e", "3", "d", "e", "4", "7", "6", "5", "5", "a", "7", "b", "0">>>>,
      <<<<"{", "\"", "i", "d", "\"", ":", "\"", "1", "7", "d", "9", "b", "d", "b", "7", "-", "a", "d", "b", "6", "-", "4", "d", "6", "c", "-", "9", "5", "d", "c", "-", "f", "f", "1", "7", "b", "5", "e", "3", "c", "7", "d", "9", "\"", ",", "\"", "l", "e", "a", "d", "I", "d", "\"", ":", "\"", "L", "1", "\"", ",", "\"", "u", "s", "e", "r", "I", "d", "\"", ":", "\"", "u", "1", "\"", ",", "\"", "p", "r", "o", "p", "e", "r", "t", "y", "I", "d", "\"", ":", "\"", "p", "1", "\"", ",", "\"", "s", "c", "h", "e", "d", "u", "l", "e", "d", "S", "t", "a", "r", "t", "A", "t", "\"", ":", "\"", "1", "9", "7", "0", "-", "0", "1", "-", "0", "1", "T", "0", "0", ":", "0", "0", ":", "0", "0", ".", "0", "1", "1", "Z", "\"", ",", "\"", "s", "t", "a", "t", "u", "s", "\"", ":", "\"", "s", "c", "h", "e", "d", "u", "l", "e", "d", "\"", ",", "\"", "c", "r", "e", "a", "t", "e", "d", "A", "t", "\"", ":", "\"", "1", "9", "7", "0", "-", "0", "1", "-", "0", "1", "T", "0", "0", ":", "0", "0", ":", "0", "0", ".", "0", "1", "1", "Z", "\"", ",", "\"", "u", "p", "d", "a", "t", "e", "d", "A", "t", "\"", ":", "\"", "1", "9", "7", "0", "-", "0", "1", "-", "0", "1", "T", "0", "0", ":", "0", "0", ":", "0", "0", ".", "0", "1", "1", "Z", "\"", "}">>,
        <<"5", "b", "a", "0", "9", "1", "1", "0", "a", "2", "c", "9", "6", "f", "a", "0", "0", "0", "a", "9", "1", "4", "8", "7", "5", "5", "0", "9", "d", "8", "9", "0", "c", "0", "7", "f", "7", "1", "4", "6", "5", "a", "3", "2", "4", "f", "2", "d", "1", "a", "0", "f", "5", "9", "e", "6", "f", "4", "e", "1", "2", "c", "d", "d">>>>,
      <<<<"{", "\"", "i", "d", "\"", ":", "\"", "1", "7", "d", "9", "b", "d", "b", "7", "-", "a", "d", "b", "6", "-", "4", "d", "6", "c", "-", "9", "5", "d", "c", "-", "f", "f", "1", "7", "b", "5", "e", "3", "c", "7", "d", "9", "\"", ",", "\"", "l", "e", "a", "d", "I", "d", "\"", ":", "\"", "L", "1", "\"", ",", "\"", "u", "s", "e", "r", "I", "d", "\"", ":", "\"", "u", "1", "\"", ",", "\"", "p", "r", "o", "p", "e", "r", "t", "y", "I", "d", "\"", ":", "\"", "p", "1", "\"", ",", "\"", "s", "c", "h", "e", "d", "u", "l", "e", "d", "S", "t", "a", "r", "t", "A", "t", "\"", ":", "\"", "1", "9", "7", "0", "-", "0", "1", "-", "0", "1", "T", "0", "0", ":", "0", "0", ":", "0", "0", ".", "0", "1", "2", "Z", "\"", ",", "\"", "s", "t", "a", "t", "u", "s", "\"", ":", "\"", "s", "c", "h", "e", "d", "u", "l", "e", "d", "\"", ",", "\"", "c", "r", "e", "a", "t", "e", "d", "A", "t", "\"", ":", "\"", "1", "9", "7", "0", "-", "0", "1", "-", "0", "1", "T", "0", "0", ":", "0", "0", ":", "0", "0", ".", "0", "1", "2", "Z", "\"", ",", "\"", "u", "p", "d", "a", "t", "e", "d", "A", "t", "\"", ":", "\"", "1", "9", "7", "0", "-", "0", "1", "-", "0", "1", "T", "0", "0", ":", "0", "0", ":", "0", "0", ".", "0", "1", "2", "Z", "\"", "}">>,
        <<"0", "0", "3", "3", "a", "f", "d", "6", "0", "3", "9", "1", "c", "9", "3", "f", "c", "a", "c", "b", "e", "3", "7", "2", "8", "9", "d", "6", "9", "5", "c", "f", "9", "b", "9", "0", "9", "9", "5", "b", "7", "0", "0", "0", "e", "8", "9", "0", "8", "7", "2", "5", "0", "8", "b", "7", "3", "4", "8", "3", "7", "b", "1", "8">>>>,
      <<<<"{", "\"", "i", "d", "\"", ":", "\"", "1", "7", "d", "9", "b", "d", "b", "7", "-", "a", "d", "b", "6", "-", "4", "d", "6", "c", "-", "9", "5", "d", "c", "-", "f", "f", "1", "7", "b", "5", "e", "3", "c", "7", "d", "9", "\"", ",", "\"", "t", "e", "n", "a", "n", "t", "I", "d", "\"", ":", "\"", "t", "1", "\"", ",", "\"", "o", "w", "n", "e", "r", "U", "s", "e", "r", "I", "d", "\"", ":", "\"", "u", "1", "\"", ",", "\"", "p", "i", "p", "e", "l", "i", "n", "e", "\"", ":", "\"", "b", "u", "y", "\"", ",", "\"", "s", "t", "a", "g", "e", "\"", ":", "\"", "n", "e", "w", "\"", ",", "\"", "s", "t", "a", "t", "u", "s", "\"", ":", "\"", "o", "p", "e", "n", "\"", ",", "\"", "t", "e", "m", "p", "e", "r", "a", "t", "u", "r", "e", "\"", ":", "\"", "N", "e", "w", "\"", ",", "\"", "c", "r", "e", "a", "t", "e", "d", "A", "t", "\"", ":", "\"", "1", "9", "7", "0", "-", "0", "1", "-", "0", "1", "T", "0", "0", ":", "0", "0", ":", "0", "0", ".", "0", "0", "9", "Z", "\"", ",", "\"", "u", "p", "d", "a", "t", "e", "d", "A", "t", "\"", ":", "\"", "1", "9", "7", "0", "-", "0", "1", "-", "0", "1", "T", "0", "0", ":", "0", "0", ":", "0", "0", ".", "0", "0", "9", "Z", "\"", ",", "\"", "f", "i", "r", "s", "t", "T", "o", "u", "c", "h", "A", "t", "\"", ":", "\"", "1", "9", "7", "0", "-", "0", "1", "-", "0", "1", "T", "0", "0", ":", "0", "0", ":", "0", "0", ".", "0", "0", "9", "Z", "\"", ",", "\"", "c", "o", "n", "t", "a", "c", "t", "\"", ":", "{", "\"", "n", "a", "m", "e", "\"", ":", "\"", "A", "n", "n", "\"", "}", "}">>,
        <<"5", "4", "8", "c", "3", "b", "f", "1", "f", "c", "6", "f", "e", "0", "e", "f", "6", "4", "c", "8", "1", "e", "2", "8", "6", "e", "4", "e", "5", "a", "9", "5", "3", "0", "9", "f", "7", "d", "5", "b", "5", "b", "6", "4", "7", "4", "2", "1", "9", "9", "9", "7", "6", "1", "7", "6", "4", "d", "2", "a", "c", "0", "f", "b">>>>,
      <<<<"{", "\"", "i", "d", "\"", ":", "\"", "1", "7", "d", "9", "b", "d", "b", "7", "-", "a", "d", "b", "6", "-", "4", "d", "6", "c", "-", "9", "5", "d", "c", "-", "f", "f", "1", "7", "b", "5", "e", "3", "c", "7", "d", "9", "\"", ",", "\"", "t", "e", "n", "a", "n", "t", "I", "d", "\"", ":", "\"", "t", "1", "\"", ",", "\"", "o", "w", "n", "e", "r", "U", "s", "e", "r", "I", "d", "\"", ":", "\"", "u", "1", "\"", ",", "\"", "p", "i", "p", "e", "l", "i", "n", "e", "\"", ":", "\"", "b", "u", "y", "\"", ",", "\"", "s", "t", "a", "g", "e", "\"", ":", "\"", "n", "e", "w", "\"", ",", "\"", "s", "t", "a", "t", "u", "s", "\"", ":", "\"", "o", "p", "e", "n", "\"", ",", "\"", "t", "e", "m", "p", "e", "r", "a", "t", "u", "r", "e", "\"", ":", "\"", "N", "e", "w", "\"", ",", "\"", "c", "r", "e", "a", "t", "e", "d", "A", "t", "\"", ":", "\"", "1", "9", "7", "0", "-", "0", "1", "-", "0", "1", "T", "0", "0", ":", "0", "0", ":", "0", "0", ".", "0", "1", "0", "Z", "\"", ",", "\"", "u", "p", "d", "a", "t", "e", "d", "A", "t", "\"", ":", "\"", "1", "9", "7", "0", "-", "0", "1", "-", "0", "1", "T", "0", "0", ":", "0", "0", ":", "0", "0", ".", "0", "1", "0", "Z", "\"", ",", "\"", "f", "i", "r", "s", "t", "T", "o", "u", "c", "h", "A", "t", "\"", ":", "\"", "1", "9", "7", "0", "-", "0", "1", "-", "0", "1", "T", "0", "0", ":", "0", "0", ":", "0", "0", ".", "0", "1", "0", "Z", "\"", ",", "\"", "c", "o", "n", "t", "a", "c", "t", "\"", ":", "{", "\"", "n", "a", "m", "e", "\"", ":", "\"", "A", "n", "n", "\"", "}", "}">>,
        <<"5", "0", "7", "c", "8", "f", "7", "d", "8", "4", "d", "3", "6", "5", "9", "1", "b", "3", "5", "a", "e", "e", "b", "d", "f", "5", "8", "b", "2", "5", "c", "8", "0", "5", "2", "2", "b", "7", "d", "6", "a", "e", "3", "3", "8", "f", "9", "4", "3", "1", "3", "1", "a", "0", "7", "7", "a", "2", "d", "7", "b", "f", "1", "7">>>>,
      <<<<"{", "\"", "i", "d", "\"", ":", "\"", "1", "7", "d", "9", "b", "d", "b", "7", "-", "a", "d", "b", "6", "-", "4", "d", "6", "c", "-", "9", "5", "d", "c", "-", "f", "f", "1", "7", "b", "5", "e", "3", "c", "7", "d", "9", "\"", ",", "\"", "t", "e", "n", "a", "n", "t", "I", "d", "\"", ":", "\"", "t", "1", "\"", ",", "\"", "o", "w", "n", "e", "r", "U", "s", "e", "r", "I", "d", "\"", ":", "\"", "u", "1", "\"", ",", "\"", "p", "i", "p", "e", "l", "i", "n", "e", "\"", ":", "\"", "b", "u", "y", "\"", ",", "\"", "s", "t", "a", "g", "e", "\"", ":", "\"", "n", "e", "w", "\"", ",", "\"", "s", "t", "a", "t", "u", "s", "\"", ":", "\"", "o", "p", "e", "n", "\"", ",", "\"", "t", "e", "m", "p", "e", "r", "a", "t", "u", "r", "e", "\"", ":", "\"", "N", "e", "w", "\"", ",", "\"", "c", "r", "e", "a", "t", "e", "d", "A", "t", "\"", ":", "\"", "1", "9", "7", "0", "-", "0", "1", "-", "0", "1", "T", "0", "0", ":", "0", "0", ":", "0", "0", ".", "0", "1", "1", "Z", "\"", ",", "\"", "u", "p", "d", "a", "t", "e", "d", "A", "t", "\"", ":", "\"", "1", "9", "7", "0", "-", "0", "1", "-", "0", "1", "T", "0", "0", ":", "0", "0", ":", "0", "0", ".", "0", "1", "1", "Z", "\"", ",", "\"", "f", "i", "r", "s", "t", "T", "o", "u", "c", "h", "A", "t", "\"", ":", "\"", "1", "9", "7", "0", "-", "0", "1", "-", "0", "1", "T", "0", "0", ":", "0", "0", ":", "0", "0", ".", "0", "1", "1", "Z", "\"", ",", "\"", "c", "o", "n", "t", "a", "c", "t", "\"", ":", "{", "\"", "n", "a", "m", "e", "\"", ":", "\"", "A", "n", "n", "\"", "}", "}">>,
        <<"c", "5", "5", "e", "2", "1", "0", "4", "1", "6", "a", "9", "2", "e", "c", "5", "9", "2", "9", "f", "8", "8", "1", "7", "2", "1", "0", "b", "3", "b", "e", "c", "3", "f", "0", "0", "e", "a", "f", "3", "a", "1", "d", "5", "4", "8", "2", "8", "a", "3", "2", "8", "5", "4", "b", "f", "9", "7", "c", "f", "6", "a", "8", "c">>>>,
      <<<<"{", "\"", "i", "d", "\"", ":", "\"", "1", "7", "d", "9", "b", "d", "b", "7", "-", "a", "d", "b", "6", "-", "4", "d", "6", "c", "-", "9", "5", "d", "c", "-", "f", "f", "1", "7", "b", "5", "e", "3", "c", "7", "d", "9", "\"", ",", "\"", "t", "e", "n", "a", "n", "t", "I", "d", "\"", ":", "\"", "t", "1", "\"", ",", "\"", "o", "w", "n", "e", "r", "U", "s", "e", "r", "I", "d", "\"", ":", "\"", "u", "1", "\"", ",", "\"", "p", "i", "p", "e", "l", "i", "n", "e", "\"", ":", "\"", "b", "u", "y", "\"", ",", "\"", "s", "t", "a", "g", "e", "\"", ":", "\"", "n", "e", "w", "\"", ",", "\"", "s", "t", "a", "t", "u", "s", "\"", ":", "\"", "o", "p", "e", "n", "\"", ",", "\"", "t", "e", "m", "p", "e", "r", "a", "t", "u", "r", "e", "\"", ":", "\"", "N", "e", "w", "\"", ",", "\"", "c", "r", "e", "a", "t", "e", "d", "A", "t", "\"", ":", "\"", "1", "9", "7", "0", "-", "0", "1", "-", "0", "1", "T", "0", "0", ":", "0", "0", ":", "0", "0", ".", "0", "1", "2", "Z", "\"", ",", "\"", "u", "p", "d", "a", "t", "e", "d", "A", "t", "\"", ":", "\"", "1", "9", "7", "0", "-", "0", "1", "-", "0", "1", "T", "0", "0", ":", "0", "0", ":", "0", "0", ".", "0", "1", "2", "Z", "\"", ",", "\"", "f", "i", "r", "s", "t", "T", "o", "u", "c", "h", "A", "t", "\"", ":", "\"", "1", "9", "7", "0", "-", "0", "1", "-", "0", "1", "T", "0", "0", ":", "0", "0", ":", "0", "0", ".", "0", "1", "2", "Z", "\"", ",", "\"", "c", "o", "n", "t", "a", "c", "t", "\"", ":", "{", "\"", "n", "a", "m", "e", "\"", ":", "\"", "A", "n", "n", "\"", "}", "}">>,
        <<"3", "1", "2", "b", "b", "c", "0", "3", "e", "1", "a", "7", "9", "1", "1", "7", "3", "f", "2", "6", "c", "7", "8", "f", "a", "e", "9", "1", "4", "4", "0", "9", "3", "f", "e", "7", "6", "5", "1", "d", "f", "d", "2", "0", "f", "9", "b", "2", "b", "0", "8", "3", "6", "0", "5", "e", "a", "c", "b", "1", "5", "c", "1", "b">>>>,
      <<<<"{", "\"", "i", "d", "\"", ":", "\"", "L", "1", "\"", ",", "\"", "s", "t", "a", "g", "e", "\"", ":", "\"", "o", "f", "f", "e", "r", "\"", ",", "\"", "l", "e", "a", "d", "I", "d", "\"", ":", "\"", "L", "1", "\"", ",", "\"", "u", "s", "e", "r", "I", "d", "\"", ":", "\"", "u", "1", "\"", ",", "\"", "p", "r", "o", "p", "e", "r", "t", "y", "I", "d", "\"", ":", "\"", "p", "1", "\"", ",", "\"", "s", "c", "h", "e", "d", "u", "l", "e", "d", "S", "t", "a", "r", "t", "A", "t", "\"", ":", "\"", "1", "9", "7", "0", "-", "0", "1", "-", "0", "1", "T", "0", "0", ":", "0", "0", ":", "0", "0", ".", "0", "0", "9", "Z", "\"", ",", "\"", "s", "t", "a", "t", "u", "s", "\"", ":", "\"", "s", "c", "h", "e", "d", "u", "l", "e", "d", "\"", ",", "\"", "c", "r", "e", "a", "t", "e", "d", "A", "t", "\"", ":", "\"", "1", "9", "7", "0", "-", "0", "1", "-", "0", "1", "T", "0", "0", ":", "0", "0", ":", "0", "0", ".", "0", "0", "9", "Z", "\"", ",", "\"", "u", "p", "d", "a", "t", "e", "d", "A", "t", "\"", ":", "\"", "1", "9", "7", "0", "-", "0", "1", "-", "0", "1", "T", "0", "0", ":", "0", "0", ":", "0", "0", ".", "0", "0", "9", "Z", "\"", ",", "\"", "f", "e", "e", "d", "b", "a", "c", "k", "\"", ":", "\"", "o", "k", "\"", ",", "\"", "a", "t", "t", "e", "n", "d", "e", "e", "s", "\"", ":", "[", "\"", "A", "n", "n", "\"", "]", "}">>,
        <<"0", "d", "4", "4", "8", "5", "1", "f", "6", "e", "a", "e", "f", "7", "f", "9", "6", "8", "0", "6", "c", "0", "e", "a", "8", "d", "f", "9", "1", "9", "7", "4", "f", "4", "7", "3", "5", "9", "2", "d", "f", "f", "3", "2", "a", "3", "c", "3", "1", "a", "c", "5", "2", "c", "c", "9", "d", "9", "1", "6", "1", "b", "0", "7">>>>,
      <<<<"{", "\"", "i", "d", "\"", ":", "\"", "L", "1", "\"", ",", "\"", "s", "t", "a", "g", "e", "\"", ":", "\"", "o", "f", "f", "e", "r", "\"", ",", "\"", "l", "e", "a", "d", "I", "d", "\"", ":", "\"", "L", "1", "\"", ",", "\"", "u", "s", "e", "r", "I", "d", "\"", ":", "\"", "u", "1", "\"", ",", "\"", "p", "r", "o", "p", "e", "r", "t", "y", "I", "d", "\"", ":", "\"", "p", "1", "\"", ",", "\"", "s", "c", "h", "e", "d", "u", "l", "e", "d", "S", "t", "a", "r", "t", "A", "t", "\"", ":", "\"", "1", "9", "7", "0", "-", "0", "1", "-", "0", "1", "T", "0", "0", ":", "0", "0", ":", "0", "0", ".", "0", "1", "0", "Z", "\"", ",", "\"", "s", "t", "a", "t", "u", "s", "\"", ":", "\"", "s", "c", "h", "e", "d", "u", "l", "e", "d", "\"", ",", "\"", "c", "r", "e", "a", "t", "e", "d", "A", "t", "\"", ":", "\"", "1", "9", "7", "0", "-", "0", "1", "-", "0", "1", "T", "0", "0", ":", "0", "0", ":", "0", "0", ".", "0", "1", "0", "Z", "\"", ",", "\"", "u", "p", "d", "a", "t", "e", "d", "A", "t", "\"", ":", "\"", "1", "9", "7", "0", "-", "0", "1", "-", "0", "1", "T", "0", "0", ":", "0", "0", ":", "0", "0", ".", "0", "1", "0", "Z", "\"", ",", "\"", "f", "e", "e", "d", "b", "a", "c", "k", "\"", ":", "\"", "o", "k", "\"", ",", "\"", "a", "t", "t", "e", "n", "d", "e", "e", "s", "\"", ":", "[", "\"", "A", "n", "n", "\"", "]", "}">>,
        <<"e", "d", "1", "0", "5", "2", "0", "8", "6", "8", "3", "5", "2", "7", "9", "c", "3", "a", "5", "a", "4", "4", "f", "2", "5", "0", "b", "f", "6", "8", "9", "d", "1", "8", "7", "b", "1", "1", "0", "e", "4", "9", "3", "4", "6", "a", "4", "2", "8", "8", "8", "f", "b", "8", "4", "f", "c", "d", "1", "0", "0", "8", "f", "9">>>>,
      <<<<"{", "\"", "i", "d", "\"", ":", "\"", "L", "1", "\"", ",", "\"", "s", "t", "a", "g", "e", "\"", ":", "\"", "o", "f", "f", "e", "r", "\"", ",", "\"", "l", "e", "a", "d", "I", "d", "\"", ":", "\"", "L", "1", "\"", ",", "\"", "u", "s", "e", "r", "I", "d", "\"", ":", "\"", "u", "1", "\"", ",", "\"", "p", "r", "o", "p", "e", "r", "t", "y", "I", "d", "\"", ":", "\"", "p", "1", "\"", ",", "\"", "s", "c", "h", "e", "d", "u", "l", "e", "d", "S", "t", "a", "r", "t", "A", "t", "\"", ":", "\"", "1", "9", "7", "0", "-", "0", "1", "-", "0", "1", "T", "0", "0", ":", "0", "0", ":", "0", "0", ".", "0", "1", "1", "Z", "\"", ",", "\"", "s", "t", "a", "t", "u", "s", "\"", ":", "\"", "s", "c", "h", "e", "d", "u", "l", "e", "d", "\"", ",", "\"", "c", "r", "e", "a", "t", "e", "d", "A", "t", "\"", ":", "\"", "1", "9", "7", "0", "-", "0", "1", "-", "0", "1", "T", "0", "0", ":", "0", "0", ":", "0", "0", ".", "0", "1", "1", "Z", "\"", ",", "\"", "u", "p", "d", "a", "t", "e", "d", "A", "t", "\"", ":", "\"", "1", "9", "7", "0", "-", "0", "1", "-", "0", "1", "T", "0", "0", ":", "0", "0", ":", "0", "0", ".", "0", "1", "1", "Z", "\"", ",", "\"", "f", "e", "e", "d", "b", "a", "c", "k", "\"", ":", "\"", "o", "k", "\"", ",", "\"", "a", "t", "t", "e", "n", "d", "e", "e", "s", "\"", ":", "[", "\"", "A", "n", "n", "\"", "]", "}">>,
        <<"c", "e", "f", "4", "a", "d", "5", "a", "f", "3", "9", "d", "b", "e", "1", "3", "e", "9", "c", "6", "b", "2", "c", "3", "0", "8", "f", "e", "2", "5", "d", "6", "c", "3", "8", "a", "a", "d", "9", "6", "a", "0", "a", "8", "a", "5", "0", "7", "2", "f", "1", "f", "c", "2", "9", "c", "6", "7", "7", "6", "4", "0", "3", "1">>>>,
      <<<<"{", "\"", "i", "d", "\"", ":", "\"", "L", "1", "\"", ",", "\"", "s", "t", "a", "g", "e", "\"", ":", "\"", "o", "f", "f", "e", "r", "\"", ",", "\"", "l", "e", "a", "d", "I", "d", "\"", ":", "\"", "L", "1", "\"", ",", "\"", "u", "s", "e", "r", "I", "d", "\"", ":", "\"", "u", "1", "\"", ",", "\"", "p", "r", "o", "p", "e", "r", "t", "y", "I", "d", "\"", ":", "\"", "p", "1", "\"", ",", "\"", "s", "c", "h", "e", "d", "u", "l", "e", "d", "S", "t", "a", "r", "t", "A", "t", "\"", ":", "\"", "1", "9", "7", "0", "-", "0", "1", "-", "0", "1", "T", "0", "0", ":", "0", "0", ":", "0", "0", ".", "0", "1", "2", "Z", "\"", ",", "\"", "s", "t", "a", "t", "u", "s", "\"", ":", "\"", "s", "c", "h", "e", "d", "u", "l", "e", "d", "\"", ",", "\"", "c", "r", "e", "a", "t", "e", "d", "A", "t", "\"", ":", "\"", "1", "9", "7", "0", "-", "0", "1", "-", "0", "1", "T", "0", "0", ":", "0", "0", ":", "0", "0", ".", "0", "1", "2", "Z", "\"", ",", "\"", "u", "p", "d", "a", "t", "e", "d", "A", "t", "\"", ":", "\"", "1", "9", "7", "0", "-", "0", "1", "-", "0", "1", "T", "0", "0", ":", "0", "0", ":", "0", "0", ".", "0", "1", "2", "Z", "\"", ",", "\"", "f", "e", "e", "d", "b", "a", "c", "k", "\"", ":", "\"", "o", "k", "\"", ",", "\"", "a", "t", "t", "e", "n", "d", "e", "e", "s", "\"", ":", "[", "\"", "A", "n", "n", "\"", "]", "}">>,
        <<"a", "e", "d", "6", "2", "e", "5", "f", "f", "9", "0", "d", "9", "4", "4", "d", "0", "f", "b", "8", "e", "b", "2", "e", "8", "f", "d", "8", "1", "a", "8", "f", "6", "a", "5", "6", "a", "1", "a", "6", "a", "f", "9", "a", "9", "c", "f", "a", "0", "8", "7", "3", "a", "1", "1", "1", "c", "c", "6", "0", "3", "3", "5", "8">>>>,
      <<<<"{", "\"", "i", "d", "\"", ":", "\"", "L", "1", "\"", ",", "\"", "s", "t", "a", "g", "e", "\"", ":", "\"", "o", "f", "f", "e", "r", "\"", ",", "\"", "t", "e", "n", "a", "n", "t", "I", "d", "\"", ":", "\"", "t", "1", "\"", ",", "\"", "o", "w", "n", "e", "r", "U", "s", "e", "r", "I", "d", "\"", ":", "\"", "u", "1", "\"", ",", "\"", "p", "i", "p", "e", "l", "i", "n", "e", "\"", ":", "\"", "b", "u", "y", "\"", ",", "\"", "s", "t", "a", "t", "u", "s", "\"", ":", "\"", "o", "p", "e", "n", "\"", ",", "\"", "t", "e", "m", "p", "e", "r", "a", "t", "u", "r", "e", "\"", ":", "\"", "N", "e", "w", "\"", ",", "\"", "c", "r", "e", "a", "t", "e", "d", "A", "t", "\"", ":", "\"", "1", "9", "7", "0", "-", "0", "1", "-", "0", "1", "T", "0", "0", ":", "0", "0", ":", "0", "0", ".", "0", "0", "9", "Z", "\"", ",", "\"", "u", "p", "d", "a", "t", "e", "d", "A", "t", "\"", ":", "\"", "1", "9", "7", "0", "-", "0", "1", "-", "0", "1", "T", "0", "0", ":", "0", "0", ":", "0", "0", ".", "0", "0", "9", "Z", "\"", ",", "\"", "f", "i", "r", "s", "t", "T", "o", "u", "c", "h", "A", "t", "\"", ":", "\"", "1", "9", "7", "0", "-", "0", "1", "-", "0", "1", "T", "0", "0", ":", "0", "0", ":", "0", "0", ".", "0", "0", "9", "Z", "\"", ",", "\"", "c", "o", "n", "t", "a", "c", "t", "\"", ":", "{", "\"", "n", "a", "m", "e", "\"", ":", "\"", "A", "n", "n", "\"", ",", "\"", "e", "m", "a", "i", "l", "\"", ":", "\"", "a", "@", "b", "\"", ",", "\"", "p", "r", "i", "m", "a", "r", "y", "P", "h", "o", "n", "e", "\"", ":", "\"", "5", "\"", ",", "\"", "p", "h", "o", "n", "e", "s", "\"", ":", "[", "\"", "5", "\"", "]", "}", ",", "\"", "s", "o", "u", "r", "c", "e", "\"", ":", "{", "\"", "c", "h", "a", "n", "n", "e", "l", "\"", ":", "\"", "w", "e", "b", "_", "f", "o", "r", "m", "\"", ",", "\"", "n", "a", "m", "e", "\"", ":", "\"", "s", "i", "t", "e", "\"", "}", ",", "\"", "t", "a", "g", "s", "\"", ":", "[", "\"", "x", "\"", ",", "\"", "y", "\"", "]", "}">>,
        <<"3", "1", "f", "8", "4", "a", "c", "c", "1", "b", "c", "2", "4", "c", "2", "a", "4", "2", "0", "d", "6", "2", "b", "3", "3", "9", "0", "9", "d", "3", "a", "9", "e", "2", "9", "b", "c", "6", "1", "a", "4", "0", "2", "7", "0", "6", "6", "a", "f", "3", "c", "1", "4", "b", "f", "c", "5", "7", "e", "6", "a", "b", "8", "4">>>>,
      <<<<"{", "\"", "i", "d", "\"", ":", "\"", "L", "1", "\"", ",", "\"", "s", "t", "a", "g", "e", "\"", ":", "\"", "o", "f", "f", "e", "r", "\"", ",", "\"", "t", "e", "n", "a", "n", "t", "I", "d", "\"", ":", "\"", "t", "1", "\"", ",", "\"", "o", "w", "n", "e", "r", "U", "s", "e", "r", "I", "d", "\"", ":", "\"", "u", "1", "\"", ",", "\"", "p", "i", "p", "e", "l", "i", "n", "e", "\"", ":", "\"", "b", "u", "y", "\"", ",", "\"", "s", "t", "a", "t", "u", "s", "\"", ":", "\"", "o", "p", "e", "n", "\"", ",", "\"", "t", "e", "m", "p", "e", "r", "a", "t", "u", "r", "e", "\"", ":", "\"", "N", "e", "w", "\"", ",", "\"", "c", "r", "e", "a", "t", "e", "d", "A", "t", "\"", ":", "\"", "1", "9", "7", "0", "-", "0", "1", "-", "0", "1", "T", "0", "0", ":", "0", "0", ":", "0", "0", ".", "0", "1", "0", "Z", "\"", ",", "\"", "u", "p", "d", "a", "t", "e", "d", "A", "t", "\"", ":", "\"", "1", "9", "7", "0", "-", "0", "1", "-", "0", "1", "T", "0", "0", ":", "0", "0", ":", "0", "0", ".", "0", "1", "0", "Z", "\"", ",", "\"", "f", "i", "r", "s", "t", "T", "o", "u", "c", "h", "A", "t", "\"", ":", "\"", "1", "9", "7", "0", "-", "0", "1", "-", "0", "1", "T", "0", "0", ":", "0", "0", ":", "0", "0", ".", "0", "1", "0", "Z", "\"", ",", "\"", "c", "o", "n", "t", "a", "c", "t", "\"", ":", "{", "\"", "n", "a", "m", "e", "\"", ":", "\"", "A", "n", "n", "\"", ",", "\"", "e", "m", "a", "i", "l", "\"", ":", "\"", "a", "@", "b", "\"", ",", "\"", "p", "r", "i", "m", "a", "r", "y", "P", "h", "o", "n", "e", "\"", ":", "\"", "5", "\"", ",", "\"", "p", "h", "o", "n", "e", "s", "\"", ":", "[", "\"", "5", "\"", "]", "}", ",", "\"", "s", "o", "u", "r", "c", "e", "\"", ":", "{", "\"", "c", "h", "a", "n", "n", "e", "l", "\"", ":", "\"", "w", "e", "b", "_", "f", "o", "r", "m", "\"", ",", "\"", "n", "a", "m", "e", "\"", ":", "\"", "s", "i", "t", "e", "\"", "}", ",", "\"", "t", "a", "g", "s", "\"", ":", "[", "\"", "x", "\"", ",", "\"", "y", "\"", "]", "}">>,
        <<"9", "8", "5", "e", "b", "0", "8", "f", "4", "e", "e", "b", "6", "1", "1", "c", "b", "8", "a", "2", "2", "c", "0", "f", "1", "2", "5", "4", "e", "a", "8", "5", "6", "2", "d", "a", "b", "d", "b", "5", "d", "e", "5", "0", "9", "5", "a", "2", "5", "a", "0", "8", "a", "7", "c", "f", "7", "7", "1", "3", "6", "b", "3", "a">>>>,
      <<<<"{", "\"", "i", "d", "\"", ":", "\"", "L", "1", "\"", ",", "\"", "s", "t", "a", "g", "e", "\"", ":", "\"", "o", "f", "f", "e", "r", "\"", ",", "\"", "t", "e", "n", "a", "n", "t", "I", "d", "\"", ":", "\"", "t", "1", "\"", ",", "\"", "o", "w", "n", "e", "r", "U", "s", "e", "r", "I", "d", "\"", ":", "\"", "u", "1", "\"", ",", "\"", "p", "i", "p", "e", "l", "i", "n", "e", "\"", ":", "\"", "b", "u", "y", "\"", ",", "\"", "s", "t", "a", "t", "u", "s", "\"", ":", "\"", "o", "p", "e", "n", "\"", ",", "\"", "t", "e", "m", "p", "e", "r", "a", "t", "u", "r", "e", "\"", ":", "\"", "N", "e", "w", "\"", ",", "\"", "c", "r", "e", "a", "t", "e", "d", "A", "t", "\"", ":", "\"", "1", "9", "7", "0", "-", "0", "1", "-", "0", "1", "T", "0", "0", ":", "0", "0", ":", "0", "0", ".", "0", "1", "1", "Z", "\"", ",", "\"", "u", "p", "d", "a", "t", "e", "d", "A", "t", "\"", ":", "\"", "1", "9", "7", "0", "-", "0", "1", "-", "0", "1", "T", "0", "0", ":", "0", "0", ":", "0", "0", ".", "0", "1", "1", "Z", "\"", ",", "\"", "f", "i", "r", "s", "t", "T", "o", "u", "c", "h", "A", "t", "\"", ":", "\"", "1", "9", "7", "0", "-", "0", "1", "-", "0", "1", "T", "0", "0", ":", "0", "0", ":", "0", "0", ".", "0", "1", "1", "Z", "\"", ",", "\"", "c", "o", "n", "t", "a", "c", "t", "\"", ":", "{", "\"", "n", "a", "m", "e", "\"", ":", "\"", "A", "n", "n", "\"", ",", "\"", "e", "m", "a", "i", "l", "\"", ":", "\"", "a", "@", "b", "\"", ",", "\"", "p", "r", "i", "m", "a", "r", "y", "P", "h", "o", "n", "e", "\"", ":", "\"", "5", "\"", ",", "\"", "p", "h", "o", "n", "e", "s", "\"", ":", "[", "\"", "5", "\"", "]", "}", ",", "\"", "s", "o", "u", "r", "c", "e", "\"", ":", "{", "\"", "c", "h", "a", "n", "n", "e", "l", "\"", ":", "\"", "w", "e", "b", "_", "f", "o", "r", "m", "\"", ",", "\"", "n", "a", "m", "e", "\"", ":", "\"", "s", "i", "t", "e", "\"", "}", ",", "\"", "t", "a", "g", "s", "\"", ":", "[", "\"", "x", "\"", ",", "\"", "y", "\"", "]", "}">>,
        <<"a", "9", "9", "d", "5", "9", "f", "1", "8", "a", "c", "5", "5", "4", "d", "7", "0", "1", "0", "8", "f", "1", "5", "7", "e", "9", "3", "4", "7", "f", "b", "1", "b", "1", "c", "7", "8", "1", "a", "9", "a", "7", "d", "4", "7", "2", "5", "f", "c", "f", "2", "4", "3", "e", "0", "3", "5", "d", "7", "4", "3", "8", "e", "b">>>>,
      <<<<"{", "\"", "i", "d", "\"", ":", "\"", "L", "1", "\"", ",", "\"", "s", "t", "a", "g", "e", "\"", ":", "\"", "o", "f", "f", "e", "r", "\"", ",", "\"", "t", "e", "n", "a", "n", "t", "I", "d", "\"", ":", "\"", "t", "1", "\"", ",", "\"", "o", "w", "n", "e", "r", "U", "s", "e", "r", "I", "d", "\"", ":", "\"", "u", "1", "\"", ",", "\"", "p", "i", "p", "e", "l", "i", "n", "e", "\"", ":", "\"", "b", "u", "y", "\"", ",", "\"", "s", "t", "a", "t", "u", "s", "\"", ":", "\"", "o", "p", "e", "n", "\"", ",", "\"", "t", "e", "m", "p", "e", "r", "a", "t", "u", "r", "e", "\"", ":", "\"", "N", "e", "w", "\"", ",", "\"", "c", "r", "e", "a", "t", "e", "d", "A", "t", "\"", ":", "\"", "1", "9", "7", "0", "-", "0", "1", "-", "0", "1", "T", "0", "0", ":", "0", "0", ":", "0", "0", ".", "0", "1", "2", "Z", "\"", ",", "\"", "u", "p", "d", "a", "t", "e", "d", "A", "t", "\"", ":", "\"", "1", "9", "7", "0", "-", "0", "1", "-", "0", "1", "T", "0", "0", ":", "0", "0", ":", "0", "0", ".", "0", "1", "2", "Z", "\"", ",", "\"", "f", "i", "r", "s", "t", "T", "o", "u", "c", "h", "A", "t", "\"", ":", "\"", "1", "9", "7", "0", "-", "0", "1", "-", "0", "1", "T", "0", "0", ":", "0", "0", ":", "0", "0", ".", "0", "1", "2", "Z", "\"", ",", "\"", "c", "o", "n", "t", "a", "c", "t", "\"", ":", "{", "\"", "n", "a", "m", "e", "\"", ":", "\"", "A", "n", "n", "\"", ",", "\"", "e", "m", "a", "i", "l", "\"", ":", "\"", "a", "@", "b", "\"", ",", "\"", "p", "r", "i", "m", "a", "r", "y", "P", "h", "o", "n", "e", "\"", ":", "\"", "5", "\"", ",", "\"", "p", "h", "o", "n", "e", "s", "\"", ":", "[", "\"", "5", "\"", "]", "}", ",", "\"", "s", "o", "u", "r", "c", "e", "\"", ":", "{", "\"", "c", "h", "a", "n", "n", "e", "l", "\"", ":", "\"", "w", "e", "b", "_", "f", "o", "r", "m", "\"", ",", "\"", "n", "a", "m", "e", "\"", ":", "\"", "s", "i", "t", "e", "\"", "}", ",", "\"", "t", "a", "g", "s", "\"", ":", "[", "\"", "x", "\"", ",", "\"", "y", "\"", "]", "}">>,
        <<"e", "8", "2", "f", "9", "9", "d", "a", "5", "5", "d", "9", "c", "1", "8", "9", "d", "e", "c", "9", "5", "6", "e", "4", "b", "e", "6", "0", "a", "a", "6", "0", "4", "6", "5", "0", "0", "2", "6", "7", "8", "c", "3", "b", "e", "2", "c", "e", "5", "2", "0", "f", "f", "2", "a", "4", "b", "2", "3", "0", "2", "0", "d", "8">>>>,
      <<<<"{", "\"", "i", "d", "\"", ":", "\"", "L", "1", "\"", ",", "\"", "s", "t", "a", "g", "e", "\"", ":", "\"", "o", "f", "f", "e", "r", "\"", "}">>,
        <<"3", "1", "2", "5", "0", "b", "a", "2", "3", "d", "7", "0", "e", "4", "e", "b", "a", "f", "0", "a", "c", "6", "2", "5", "5", "8", "4", "f", "9", "0", "f", "2", "2", "0", "2", "2", "d", "5", "f", "f", "9", "9", "9", "e", "0", "5", "5", "8", "3", "0", "c", "e", "4", "8", "4", "b", "1", "c", "6", "6", "4", "6", "1", "5">>>>,
      <<<<"{", "\"", "i", "d", "\"", ":", "\"", "a", "1", "\"", ",", "\"", "t", "y", "p", "e", "\"", ":", "\"", "c", "a", "l", "l", "\"", ",", "\"", "d", "i", "r", "e", "c", "t", "i", "o", "n", "\"", ":", "\"", "i", "n", "b", "o", "u", "n", "d", "\"", ",", "\"", "a", "t", "\"", ":", "\"", "n", "o", "w", "\"", ",", "\"", "u", "s", "e", "r", "I", "d", "\"", ":", "\"", "u", "1", "\"", ",", "\"", "s", "u", "m", "m", "a", "r", "y", "\"", ":", "\"", "h", "i", "\"", "}">>,
        <<"8", "0", "d", "9", "4", "0", "1", "7", "4", "1", "2", "e", "f", "0", "4", "2", "b", "4", "1", "3", "7", "3", "6", "1", "3", "0", "8", "c", "5", "a", "1", "6", "d", "3", "d", "1", "9", "6", "f", "d", "b", "f", "5", "4", "a", "c", "4", "5", "d", "c", "4", "7", "d", "0", "f", "a", "9", "c", "e", "4", "1", "8", "8", "0">>>>,
      <<<<"{", "\"", "o", "w", "n", "e", "r", "_", "i", "d", "\"", ":", "\"", "u", "1", "\"", ",", "\"", "t", "y", "p", "e", "\"", ":", "\"", "i", "m", "a", "g", "e", "/", "p", "n", "g", "\"", ",", "\"", "d", "a", "t", "a", "\"", ":", "\"", "/", "/", "s", "=", "\"", ",", "\"", "r", "o", "l", "e", "\"", ":", "\"", "r", "e", "a", "l", "_", "e", "s", "t", "a", "t", "e", "\"", "}">>,
        <<"9", "4", "2", "7", "9", "3", "3", "e", "0", "0", "1", "e", "6", "f", "9", "f", "f", "d", "a", "9", "f", "f", "d", "1", "5", "e", "5", "9", "7", "b", "e", "9", "f", "4", "8", "8", "b", "f", "a", "a", "2", "c", "d", "b", "f", "1", "d", "a", "6", "d", "1", "5", "3", "a", "2", "1", "f", "2", "3", "b", "8", "9", "f", "7">>>>,
      <<<<"{", "\"", "o", "w", "n", "e", "r", "_", "i", "d", "\"", ":", "\"", "u", "1", "\"", ",", "\"", "t", "y", "p", "e", "\"", ":", "\"", "i", "m", "a", "g", "e", "/", "p", "n", "g", "\"", ",", "\"", "d", "a", "t", "a", "\"", ":", "\"", "a", "G", "k", "=", "\"", ",", "\"", "r", "o", "l", "e", "\"", ":", "\"", "r", "e", "a", "l", "_", "e", "s", "t", "a", "t", "e", "\"", "}">>,
        <<"f", "5", "2", "b", "6", "2", "2", "3", "4", "6", "a", "3", "e", "1", "4", "e", "1", "7", "e", "2", "3", "f", "3", "e", "1", "f", "6", "4", "5", "3", "0", "1", "f", "8", "e", "8", "3", "3", "9", "c", "5", "a", "2", "b", "3", "c", "1", "f", "a", "f", "7", "1", "c", "a", "7", "7", "7", "2", "c", "b", "d", "5", "9", "d">>>>,
      <<<<"{", "\"", "o", "w", "n", "e", "r", "_", "i", "d", "\"", ":", "\"", "u", "1", "\"", ",", "\"", "t", "y", "p", "e", "\"", ":", "\"", "t", "e", "x", "t", "/", "p", "l", "a", "i", "n", "\"", ",", "\"", "d", "a", "t", "a", "\"", ":", "\"", "h", "e", "l", "l", "o", "\"", ",", "\"", "r", "o", "l", "e", "\"", ":", "\"", "r", "e", "a", "l", "_", "e", "s", "t", "a", "t", "e", "\"", ",", "\"", "m", "o", "d", "e", "l", "s", "\"", ":", "[", "{", "\"", "t", "y", "p", "e", "\"", ":", "\"", "l", "o", "g", "\"", "}", "]", "}">>,
        <<"3", "d", "1", "9", "d", "6", "d", "6", "5", "7", "1", "3", "5", "8", "8", "4", "1", "6", "3", "3", "b", "d", "6", "9", "0", "8", "3", "1", "0", "4", "5", "c", "b", "f", "d", "6", "f", "2", "1", "9", "7", "e", "b", "3", "d", "5", "a", "a", "0", "0", "0", "8", "9", "7", "7", "a", "5", "5", "2", "e", "d", "3", "4", "d">>>>,
      <<<<"{", "\"", "o", "w", "n", "e", "r", "_", "i", "d", "\"", ":", "\"", "u", "1", "\"", ",", "\"", "t", "y", "p", "e", "\"", ":", "\"", "t", "e", "x", "t", "/", "p", "l", "a", "i", "n", "\"", ",", "\"", "d", "a", "t", "a", "\"", ":", "\"", "h", "i", "\"", ",", "\"", "r", "o", "l", "e", "\"", ":", "\"", "r", "\"", ",", "\"", "m", "o", "d", "e", "l", "s", "\"", ":", "[", "{", "\"", "t", "y", "p", "e", "\"", ":", "\"", "l", "o", "g", "\"", "}", "]", "}">>,
        <<"1", "e", "a", "5", "a", "6", "5", "c", "e", "0", "0", "2", "5", "8", "3", "4", "4", "e", "1", "e", "9", "0", "5", "5", "a", "b", "4", "0", "b", "5", "4", "9", "d", "6", "b", "1", "a", "1", "b", "3", "a", "c", "c", "3", "b", "0", "c", "f", "5", "c", "d", "4", "d", "8", "c", "1", "6", "2", "b", "8", "1", "5", "3", "3">>>>,
      <<<<"{", "\"", "i", "d", "\"", ":", "\"", "1", "7", "d", "9", "b", "d", "b", "7", "-", "a", "d", "b", "6", "-", "4", "d", "6", "c", "-", "9", "5", "d", "c", "-", "f", "f", "1", "7", "b", "5", "e", "3", "c", "7", "d", "9", "\"", ",", "\"", "l", "e", "a", "d", "I", "d", "\"", ":", "\"", "L", "1", "\"", ",", "\"", "u", "s", "e", "r", "I", "d", "\"", ":", "\"", "u", "1", "\"", ",", "\"", "p", "r", "o", "p", "e", "r", "t", "y", "I", "d", "\"", ":", "\"", "p", "1", "\"", ",", "\"", "s", "c", "h", "e", "d", "u", "l", "e", "d", "S", "t", "a", "r", "t", "A", "t", "\"", ":", "\"", "1", "9", "7", "0", "-", "0", "1", "-", "0", "1", "T", "0", "0", ":", "0", "0", ":", "0", "0", ".", "0", "0", "9", "Z", "\"", ",", "\"", "s", "t", "a", "t", "u", "s", "\"", ":", "\"", "s", "c", "h", "e", "d", "u", "l", "e", "d", "\"", ",", "\"", "c", "r", "e", "a", "t", "e", "d", "A", "t", "\"", ":", "\"", "1", "9", "7", "0", "-", "0", "1", "-", "0", "1", "T", "0", "0", ":", "0", "0", ":", "0", "0", ".", "0", "0", "9", "Z", "\"", ",", "\"", "u", "p", "d", "a", "t", "e", "d", "A", "t", "\"", ":", "\"", "1", "9", "7", "0", "-", "0", "1", "-", "0", "1", "T", "0", "0", ":", "0", "0", ":", "0", "0", ".", "0", "0", "9", "Z", "\"", ",", "\"", "a", "t", "t", "e", "n", "d", "e", "e", "s", "\"", ":", "[", "\"", "A", "n", "n", "\"", ",", "\"", "B", "o", "b", "\"", "]", "}">>,
        <<"f", "1", "a", "a", "a", "1", "7", "6", "a", "d", "a", "a", "8", "4", "9", "4", "d", "2", "6", "7", "8", "9", "1", "3", "5", "a", "7", "5", "c", "e", "5", "a", "b", "3", "3", "f", "9", "d", "8", "1", "e", "1", "8", "f", "2", "a", "f", "9", "8", "a", "0", "d", "f", "7", "f", "9", "d", "5", "1", "1", "f", "5", "3", "f">>>>,
      <<<<"{", "\"", "i", "d", "\"", ":", "\"", "1", "7", "d", "9", "b", "d", "b", "7", "-", "a", "d", "b", "6", "-", "4", "d", "6", "c", "-", "9", "5", "d", "c", "-", "f", "f", "1", "7", "b", "5", "e", "3", "c", "7", "d", "9", "\"", ",", "\"", "l", "e", "a", "d", "I", "d", "\"", ":", "\"", "L", "1", "\"", ",", "\"", "u", "s", "e", "r", "I", "d", "\"", ":", "\"", "u", "1", "\"", ",", "\"", "p", "r", "o", "p", "e", "r", "t", "y", "I", "d", "\"", ":", "\"", "p", "1", "\"", ",", "\"", "s", "c", "h", "e", "d", "u", "l", "e", "d", "S", "t", "a", "r", "t", "A", "t", "\"", ":", "\"", "1", "9", "7", "0", "-", "0", "1", "-", "0", "1", "T", "0", "0", ":", "0", "0", ":", "0", "0", ".", "0", "1", "0", "Z", "\"", ",", "\"", "s", "t", "a", "t", "u", "s", "\"", ":", "\"", "s", "c", "h", "e", "d", "u", "l", "e", "d", "\"", ",", "\"", "c", "r", "e", "a", "t", "e", "d", "A", "t", "\"", ":", "\"", "1", "9", "7", "0", "-", "0", "1", "-", "0", "1", "T", "0", "0", ":", "0", "0", ":", "0", "0", ".", "0", "1", "0", "Z", "\"", ",", "\"", "u", "p", "d", "a", "t", "e", "d", "A", "t", "\"", ":", "\"", "1", "9", "7", "0", "-", "0", "1", "-", "0", "1", "T", "0", "0", ":", "0", "0", ":", "0", "0", ".", "0", "1", "0", "Z", "\"", ",", "\"", "a", "t", "t", "e", "n", "d", "e", "e", "s", "\"", ":", "[", "\"", "A", "n", "n", "\"", ",", "\"", "B", "o", "b", "\"", "]", "}">>,
        <<"9", "6", "d", "8", "3", "8", "0", "1", "7", "e", "0", "5", "e", "5", "9", "1", "0", "a", "7", "b", "2", "c", "2", "1", "4", "1", "d", "f", "f", "7", "d", "d", "6", "2", "4", "4", "e", "6", "c", "1", "a", "9", "6", "d", "c", "2", "7", "2", "3", "f", "2", "1", "d", "5", "d", "8", "2", "f", "0", "4", "a", "c", "6", "8">>>>,
      <<<<"{", "\"", "i", "d", "\"", ":", "\"", "1", "7", "d", "9", "b", "d", "b", "7", "-", "a", "d", "b", "6", "-", "4", "d", "6", "c", "-", "9", "5", "d", "c", "-", "f", "f", "1", "7", "b", "5", "e", "3", "c", "7", "d", "9", "\"", ",", "\"", "l", "e", "a", "d", "I", "d", "\"", ":", "\"", "L", "1", "\"", ",", "\"", "u", "s", "e", "r", "I", "d", "\"", ":", "\"", "u", "1", "\"", ",", "\"", "p", "r", "o", "p", "e", "r", "t", "y", "I", "d", "\"", ":", "\"", "p", "1", "\"", ",", "\"", "s", "c", "h", "e", "d", "u", "l", "e", "d", "S", "t", "a", "r", "t", "A", "t", "\"", ":", "\"", "1", "9", "7", "0", "-", "0", "1", "-", "0", "1", "T", "0", "0", ":", "0", "0", ":", "0", "0", ".", "0", "1", "1", "Z", "\"", ",", "\"", "s", "t", "a", "t", "u", "s", "\"", ":", "\"", "s", "c", "h", "e", "d", "u", "l", "e", "d", "\"", ",", "\"", "c", "r", "e", "a", "t", "e", "d", "A", "t", "\"", ":", "\"", "1", "9", "7", "0", "-", "0", "1", "-", "0", "1", "T", "0", "0", ":", "0", "0", ":", "0", "0", ".", "0", "1", "1", "Z", "\"", ",", "\"", "u", "p", "d", "a", "t", "e", "d", "A", "t", "\"", ":", "\"", "1", "9", "7", "0", "-", "0", "1", "-", "0", "1", "T", "0", "0", ":", "0", "0", ":", "0", "0", ".", "0", "1", "1", "Z", "\"", ",", "\"", "a", "t", "t", "e", "n", "d", "e", "e", "s", "\"", ":", "[", "\"", "A", "n", "n", "\"", ",", "\"", "B", "o", "b", "\"", "]", "}">>,
        <<"1", "5", "1", "f", "7", "b", "7", "c", "c", "e", "2", "6", "7", "a", "2", "d", "3", "3", "6", "a", "2", "6", "0", "3", "7", "c", "d", "6", "0", "f", "1", "3", "0", "4", "d", "1", "0", "6", "8", "b", "2", "e", "0", "9", "8", "2", "1", "9", "d", "3", "b", "c", "a", "2", "3", "5", "7", "c", "4", "0", "1", "2", "a", "6">>>>,
      <<<<"{", "\"", "i", "d", "\"", ":", "\"", "1", "7", "d", "9", "b", "d", "b", "7", "-", "a", "d", "b", "6", "-", "4", "d", "6", "c", "-", "9", "5", "d", "c", "-", "f", "f", "1", "7", "b", "5", "e", "3", "c", "7", "d", "9", "\"", ",", "\"", "l", "e", "a", "d", "I", "d", "\"", ":", "\"", "L", "1", "\"", ",", "\"", "u", "s", "e", "r", "I", "d", "\"", ":", "\"", "u", "1", "\"", ",", "\"", "p", "r", "o", "p", "e", "r", "t", "y", "I", "d", "\"", ":", "\"", "p", "1", "\"", ",", "\"", "s", "c", "h", "e", "d", "u", "l", "e", "d", "S", "t", "a", "r", "t", "A", "t", "\"", ":", "\"", "1", "9", "7", "0", "-", "0", "1", "-", "0", "1", "T", "0", "0", ":", "0", "0", ":", "0", "0", ".", "0", "1", "2", "Z", "\"", ",", "\"", "s", "t", "a", "t", "u", "s", "\"", ":", "\"", "s", "c", "h", "e", "d", "u", "l", "e", "d", "\"", ",", "\"", "c", "r", "e", "a", "t", "e", "d", "A", "t", "\"", ":", "\"", "1", "9", "7", "0", "-", "0", "1", "-", "0", "1", "T", "0", "0", ":", "0", "0", ":", "0", "0", ".", "0", "1", "2", "Z", "\"", ",", "\"", "u", "p", "d", "a", "t", "e", "d", "A", "t", "\"", ":", "\"", "1", "9", "7", "0", "-", "0", "1", "-", "0", "1", "T", "0", "0", ":", "0", "0", ":", "0", "0", ".", "0", "1", "2", "Z", "\"", ",", "\"", "a", "t", "t", "e", "n", "d", "e", "e", "s", "\"", ":", "[", "\"", "A", "n", "n", "\"", ",", "\"", "B", "o", "b", "\"", "]", "}">>,
        <<"a", "5", "d", "8", "5", "9", "8", "5", "0", "9", "f", "3", "4", "5", "6", "0", "4", "2", "a", "d", "3", "d", "2", "4", "6", "8", "b", "5", "3", "d", "8", "5", "1", "f", "9", "f", "3", "2", "e", "3", "4", "0", "2", "4", "1", "7", "0", "0", "f", "8", "1", "5", "3", "9", "1", "7", "4", "a", "3", "8", "5", "b", "e", "5">>>>,
      <<<<"{", "\"", "o", "w", "n", "e", "r", "_", "i", "d", "\"", ":", "\"", "u", "1", "\"", ",", "\"", "t", "y", "p", "e", "\"", ":", "\"", "t", "e", "x", "t", "/", "p", "l", "a", "i", "n", "\"", ",", "\"", "d", "a", "t", "a", "\"", ":", "\"", "h", "i", "\"", ",", "\"", "r", "o", "l", "e", "\"", ":", "\"", "r", "e", "a", "l", "_", "e", "s", "t", "a", "t", "e", "\"", ",", "\"", "m", "o", "d", "e", "l", "s", "\"", ":", "[", "{", "\"", "t", "y", "p", "e", "\"", ":", "\"", "l", "o", "g", "\"", ",", "\"", "d", "a", "t", "a", "\"", ":", "{", "\"", "i", "d", "\"", ":", "\"", "1", "7", "d", "9", "b", "d", "b", "7", "-", "a", "d", "b", "6", "-", "4", "d", "6", "c", "-", "9", "5", "d", "c", "-", "f", "f", "1", "7", "b", "5", "e", "3", "c", "7", "d", "9", "\"", ",", "\"", "v", "i", "s", "i", "t", "I", "d", "\"", ":", "\"", "9", "4", "f", "d", "b", "c", "b", "e", "-", "1", "7", "4", "4", "-", "4", "e", "d", "9", "-", "9", "1", "0", "c", "-", "b", "9", "b", "5", "9", "2", "6", "8", "d", "3", "e", "4", "\"", ",", "\"", "n", "o", "t", "e", "I", "d", "\"", ":", "\"", "$", "{", "n", "o", "t", "e", ".", "n", "o", "t", "e", "_", "i", "d", "}", "\"", ",", "\"", "o", "w", "n", "e", "r", "I", "d", "\"", ":", "\"", "$", "{", "n", "o", "t", "e", ".", "o", "w", "n", "e", "r", "_", "i", "d", "}", "\"", ",", "\"", "s", "u", "m", "m", "a", "r", "y", "\"", ":", "\"", "$", "{", "n", "o", "t", "e", ".", "s", "u", "m", "m", "a", "r", "y", "}", "\"", ",", "\"", "t", "y", "p", "e", "\"", ":", "\"", "$", "{", "n", "o", "t", "e", ".", "t", "y", "p", "e", "}", "\"", ",", "\"", "c", "r", "e", "a", "t", "e", "d", "A", "t", "\"", ":", "\"", "$", "{", "n", "o", "t", "e", ".", "c", "r", "e", "a", "t", "e", "d", "_", "a", "t", "}", "\"", ",", "\"", "u", "p", "d", "a", "t", "e", "d", "A", "t", "\"", ":", "\"", "$", "{", "n", "o", "t", "e", ".", "u", "p", "d", "a", "t", "e", "d", "_", "a", "t", "}", "\"", "}", "}", "]", "}">>,
        <<"5", "3", "f", "4", "3", "a", "5", "5", "6", "9", "a", "9", "a", "e", "5", "5", "a", "f", "a", "e", "4", "c", "9", "1", "a", "6", "9", "f", "5", "8", "4", "5", "0", "5", "1", "5", "f", "e", "e", "8", "6", "c", "2", "a", "4", "b", "8", "2", "c", "f", "a", "5", "f", "f", "3", "8", "b", "9", "1", "d", "2", "c", "7", "5">>>> }

sha256Hex(s) == (CHOOSE row \in Sha256Table : row[1] = s)[2]

\* DER prefix of a PKCS#8 PrivateKeyInfo holding a 32-byte Ed25519 seed
Pkcs8Ed25519Prefix ==
    <<48, 46, 2, 1, 0, 48, 5, 6, 3, 43, 101, 112, 4, 34, 4, 32>>

\* a key parser that accepts every buffer
IsAnyBuffer(der) == Len(der) >= 0

\* createPrivateKey({key, format: 'der', type: 'pkcs8'}) accepts the buffer
\* exactly when it is a well-formed PrivateKeyInfo
IsPkcs8PrivateKey(der) ==
    /\ Len(der) = Len(Pkcs8Ed25519Prefix) + 32
    /\ SubSeq(der, 1, Len(Pkcs8Ed25519Prefix)) = Pkcs8Ed25519Prefix

\* sum of f(lo) .. f(hi)
RECURSIVE Sum(_, _, _)
Sum(f, lo, hi) ==
    IF lo > hi THEN 0
    ELSE IF lo = hi THEN f[lo]
    ELSE Sum(f, lo, (lo + hi) \div 2) + Sum(f, ((lo + hi) \div 2) + 1, hi)

\* Buffer.from(s, 'utf8') for ASCII text
bufferFromString(s) == [i \in 1..Len(s) |-> CharCode(s[i])]

\* nodeSign(null, message, privateKey): Ed25519 is deterministic, the 64
\* signature bytes are a function of key and message.  The function is
\* abstracted to a keyed digest of the message bytes.
ed25519Sign(message, der) ==
    LET \* a position-weighted digest of a sequence of bytes, modulo m
        Digest(bytes, m) ==
            Sum([i \in 1..Len(bytes) |-> ((bytes[i] + 1) * (((i * i) + (31 * i) + 1) % m)) % m],
                1, Len(bytes)) % m
    IN
    LET \* the 64 signature bytes, from the two digests of the message
        signatureBytes(h1, h2) ==
            LET quad == << h1 \div 256, h1 % 256, h2 \div 256, h2 % 256 >>
                x16  == quad \o quad \o quad \o quad
            IN  x16 \o x16 \o x16 \o x16
        keyedDigests(bytes, k) ==
            signatureBytes((Digest(bytes, 65521) + k) % 65521,
                           (Digest(bytes, 65519) + (k * 3)) % 65519)
    IN
                             keyedDigests(message, Digest(der, 251))

(***************************************************************************)
(* AuthSigner (src/auth/signer.ts).                                        *)
(***************************************************************************)

SecretError == "Invalid access secret format. Must start with SK_"
KeyError    == "ERR_OSSL_ASN1: createPrivateKey failed"

\* an 'if' in place of the 'while' of line 48
trimUrlOnce(cleanUrl) ==
    IF endsWith(cleanUrl, <<"/">>) \/ endsWith(cleanUrl, <<"?">>)
    THEN dropLast(cleanUrl)
    ELSE cleanUrl

\* lines 47-50: strip every trailing '/' and '?'
RECURSIVE trimUrl(_)
trimUrl(cleanUrl) ==
    IF endsWith(cleanUrl, <<"/">>) \/ endsWith(cleanUrl, <<"?">>)
    THEN trimUrl(dropLast(cleanUrl))
    ELSE cleanUrl

\* the fields with the nonce left empty
signingFieldsWithoutNonce(method, url, queryString, body, timestamp, nonce) ==
    << toUpperCase(method),
       trimUrl(url),
       queryString,
       sha256Hex(body),
       numberToString(timestamp),
       <<>> >>

\* the fields with query string and URL exchanged
signingFieldsQueryFirst(method, url, queryString, body, timestamp, nonce) ==
    << toUpperCase(method),
       queryString,
       trimUrl(url),
       sha256Hex(body),
       numberToString(timestamp),
       nonce >>

\* lines 52-60: the six fields of the canonical string, in order
signingFields(method, url, queryString, body, timestamp, nonce) ==
    << toUpperCase(method),
       trimUrl(url),
       queryString,
       sha256Hex(body),
       numberToString(timestamp),
       nonce >>

constructSigningString(method, url, queryString, body, timestamp, nonce) ==
    join(signingFields(method, url, queryString, body, timestamp, nonce), <<NL>>)

\* lines 70-77, given the decoded key
signWithKey(signingString, secretKeyDer) ==
    IF ~IsPkcs8PrivateKey(secretKeyDer)
    THEN [ok |-> FALSE, error |-> KeyError, value |-> <<>>]
    ELSE [ok |-> TRUE, error |-> "",
          value |-> toBase64Url(
                        ed25519Sign(bufferFromString(signingString), secretKeyDer))]

\* a signer that drops three characters without looking at them
signUnchecked(signingString, accessSecret) ==
    signWithKey(signingString, base64UrlToBuffer(sliceFrom(accessSecret, 3)))

\* a signer that takes a secret without the prefix as the bare key
signAnyPrefix(signingString, accessSecret) ==
    IF ~startsWith(accessSecret, <<"S", "K", "_">>)
    THEN signWithKey(signingString, base64UrlToBuffer(accessSecret))
    ELSE signWithKey(signingString, base64UrlToBuffer(sliceFrom(accessSecret, 3)))

\* lines 63-78: the signature, or the error thrown
sign(signingString, accessSecret) ==
    IF ~startsWith(accessSecret, <<"S", "K", "_">>)
    THEN [ok |-> FALSE, error |-> SecretError, value |-> <<>>]
    ELSE signWithKey(signingString, base64UrlToBuffer(sliceFrom(accessSecret, 3)))

\* lines 80-82, given the 16 bytes randomBytes returned
generateNonce(random) == toBase64Url(random)

\* the template with nonce and timestamp exchanged
authorizationHeaderNonceFirst(accessKeyId, signature, timestamp, nonce) ==
    <<"L", "t", "B", "a", "s", "e", " ">> \o accessKeyId \o <<":">> \o signature \o <<":">>
        \o nonce \o <<":">> \o numberToString(timestamp)

\* line 36: the header template
authorizationHeader(accessKeyId, signature, timestamp, nonce) ==
    <<"L", "t", "B", "a", "s", "e", " ">> \o accessKeyId \o <<":">> \o signature \o <<":">>
        \o numberToString(timestamp) \o <<":">> \o nonce

\* lines 19-37, given what Date.now() and randomBytes(16) returned
generateAuthorizationHeader(accessKeyId, accessSecret, method, url, queryString, body, clock, random) ==
    LET \* lines 35-36: the outcome of the call, given the signature or its error
        authorizationResult(accessKeyId0, timestamp, nonce, signingString, signature) ==
            [ ok            |-> signature.ok,
              error         |-> signature.error,
              timestamp     |-> timestamp,
              nonce         |-> nonce,
              signingString |-> signingString,
              header        |-> IF signature.ok
                                THEN authorizationHeader(accessKeyId0, signature.value,
                                                         timestamp, nonce)
                                ELSE <<>> ]
        \* lines 27-36, given timestamp and nonce
        signRequest(accessKeyId0, accessSecret0, timestamp, nonce, signingString) ==
            authorizationResult(accessKeyId0, timestamp, nonce, signingString,
                                sign(signingString, accessSecret0))
        signWithNonce(accessKeyId0, accessSecret0, method0, url0, queryString0, body0, timestamp, nonce) ==
            signRequest(accessKeyId0, accessSecret0, timestamp, nonce,
                        constructSigningString(method0, url0, queryString0, body0,
                                               timestamp, nonce))
    IN
    signWithNonce(accessKeyId, accessSecret, method, url, queryString, body,
                  clock, generateNonce(random))

(***************************************************************************)
(* WHATWG URL, URLSearchParams and JSON, as used by src/api/client.ts.     *)
(***************************************************************************)

\* the concatenation of parts[lo], ..., parts[hi]
RECURSIVE concat(_, _, _)
concat(parts, lo, hi) ==
    IF lo > hi THEN <<>>
    ELSE IF lo = hi THEN parts[lo]
    ELSE concat(parts, lo, (lo + hi) \div 2)
         \o concat(parts, ((lo + hi) \div 2) + 1, hi)

IsAlphaNum(c) ==
    \/ CharCode(c) >= 48 /\ CharCode(c) <= 57
    \/ CharCode(c) >= 65 /\ CharCode(c) <= 90
    \/ CharCode(c) >= 97 /\ CharCode(c) <= 122

\* URLSearchParams.prototype.toString() of a list of <<name, value>> pairs
urlSearchParamsToString(pairs) ==
    LET HexDigits == <<"0", "1", "2", "3", "4", "5", "6", "7", "8", "9", "A", "B", "C", "D", "E", "F">>
        percentEncode(c) ==
            << "%", HexDigits[(CharCode(c) \div 16) + 1], HexDigits[(CharCode(c) % 16) + 1] >>
        \* application/x-www-form-urlencoded byte serializer, one character
        formEncodeChar(c) ==
            IF c = " " THEN <<"+">>
            ELSE IF IsAlphaNum(c) \/ c \in {"*", "-", ".", "_"} THEN <<c>>
            ELSE percentEncode(c)
        formEncode(s) == concat([i \in 1..Len(s) |-> formEncodeChar(s[i])], 1, Len(s))
    IN
    join([i \in 1..Len(pairs) |->
            formEncode(pairs[i][1]) \o <<"=">> \o formEncode(pairs[i][2])],
         <<"&">>)

\* URL.prototype.toString()
urlToString(url) ==
    url.origin \o url.pathname
        \o (IF url.hasQuery THEN <<"?">> \o url.query ELSE <<>>)

(***************************************************************************)
(* JavaScript values: a scalar is a record tagged with its type; an        *)
(* object is a list of <<key, value>> properties in insertion order, an    *)
(* array a list of values.                                                 *)
(***************************************************************************)

Undefined  == [t |-> "undefined", s |-> <<>>, n |-> 0, b |-> FALSE, o |-> <<>>]
Null       == [t |-> "null",      s |-> <<>>, n |-> 0, b |-> FALSE, o |-> <<>>]
Str(s)     == [t |-> "string",    s |-> s,    n |-> 0, b |-> FALSE, o |-> <<>>]
Num(n)     == [t |-> "number",    s |-> <<>>, n |-> n, b |-> FALSE, o |-> <<>>]
Bool(b)    == [t |-> "boolean",   s |-> <<>>, n |-> 0, b |-> b,     o |-> <<>>]
Obj(props) == [t |-> "object",    s |-> <<>>, n |-> 0, b |-> FALSE, o |-> props]
Arr(items) == [t |-> "array",     s |-> <<>>, n |-> 0, b |-> FALSE, o |-> items]

\* String(value) for a scalar
toStringValue(v) ==
    IF v.t = "string" THEN v.s
    ELSE IF v.t = "number" THEN numberToString(v.n)
    ELSE IF v.t = "boolean" THEN (IF v.b THEN <<"t", "r", "u", "e">> ELSE <<"f", "a", "l", "s", "e">>)
    ELSE IF v.t = "null" THEN <<"n", "u", "l", "l">>
    ELSE <<"u", "n", "d", "e", "f", "i", "n", "e", "d">>

\* JSON.stringify(value): properties whose value is undefined are left out,
\* array items that are undefined are written as null
RECURSIVE jsonStringify(_)
jsonStringify(v) ==
    LET jsonEscapeChar(c) ==
            IF c = "\"" THEN <<"\\", "\"">>
            ELSE IF c = "\\" THEN <<"\\", "\\">>
            ELSE IF c = NL THEN <<"\\", "n">>
            ELSE <<c>>
        jsonQuote(s) == <<"\"">> \o concat([i \in 1..Len(s) |-> jsonEscapeChar(s[i])], 1, Len(s)) \o <<"\"">>
    IN
    LET jsonScalar(v0) == IF v0.t = "string" THEN jsonQuote(v0.s) ELSE toStringValue(v0)
        IsDefinedProperty(p) == p[2].t # "undefined"
    IN
    IF v.t = "object" THEN
        LET props == SelectSeq(v.o, IsDefinedProperty)
        IN  <<"{">>
            \o join([i \in 1..Len(props) |->
                        jsonQuote(props[i][1]) \o <<":">> \o jsonStringify(props[i][2])],
                    <<",">>)
            \o <<"}">>
    ELSE IF v.t = "array" THEN
        <<"[">>
        \o join([i \in 1..Len(v.o) |->
                    IF v.o[i].t = "undefined" THEN jsonScalar(Null)
                    ELSE jsonStringify(v.o[i])],
                <<",">>)
        \o <<"]">>
    ELSE jsonScalar(v)

(***************************************************************************)
(* ApiClient (src/api/client.ts).                                          *)
(***************************************************************************)

\* line 119: the entries whose value is not undefined
IsDefinedEntry(e) == e[2].t # "undefined"

\* line 120: Array.prototype.sort with that comparator (stable)
RECURSIVE insertSorted(_, _)
insertSorted(sorted, e) ==
    LET \* line 120: the comparator, as a strict order on entries
        entryBefore(x, y) == stringLess(x[1], y[1])
    IN
    IF Len(sorted) = 0 THEN <<e>>
    ELSE IF entryBefore(e, sorted[Len(sorted)])
         THEN insertSorted(dropLast(sorted), e) \o <<sorted[Len(sorted)]>>
         ELSE sorted \o <<e>>

\* the entries left in insertion order
sortEntriesSkipped(entries) == entries

RECURSIVE sortEntries(_)
sortEntries(entries) ==
    IF Len(entries) = 0 THEN <<>>
    ELSE insertSorted(sortEntries(dropLast(entries)), entries[Len(entries)])

\* lines 117-127; params is [present, entries]
buildQueryString(params) ==
    IF ~params.present THEN <<>>
    ELSE LET entries == sortEntries(SelectSeq(params.entries, IsDefinedEntry))
         IN  urlSearchParamsToString(
                 [i \in 1..Len(entries) |->
                     <<entries[i][1], toStringValue(entries[i][2])>>])

\* only undefined counts as an absent body
bodyStringOfNull(body) ==
    IF body.t = "undefined" THEN <<>> ELSE jsonStringify(body)

\* line 61
bodyString(body) ==
    IF body.t = "undefined" \/ body.t = "null" THEN <<>> ELSE jsonStringify(body)

\* lines 23-25
isSuccess(status) == status >= 200 /\ status < 300

(***************************************************************************)
(* Response decoding (src/api/client.ts, decodeResponse).                  *)
(***************************************************************************)

toLowerCase(s) ==
    LET \* String.prototype.toLowerCase on ASCII text
        LowerChar(c) ==
            IF CharCode(c) >= 65 /\ CharCode(c) <= 90
            THEN FromCharCode(CharCode(c) + 32)
            ELSE c
    IN
                  [i \in 1..Len(s) |-> LowerChar(s[i])]

\* String.prototype.trim for blanks
RECURSIVE trim(_)
trim(s) ==
    IF Len(s) > 0 /\ s[1] = " " THEN trim(Tail(s))
    ELSE IF Len(s) > 0 /\ s[Len(s)] = " " THEN trim(dropLast(s))
    ELSE s

\* the match without the 'i' flag
charsetMatchCaseSensitive(contentType) ==
    LET key      == <<"c", "h", "a", "r", "s", "e", "t", "=">>
        at(i)    == /\ i + Len(key) <= Len(contentType)
                    /\ SubSeq(contentType, i, i + Len(key) - 1) = key
                    /\ contentType[i + Len(key)] # ";"
        starts   == {i \in 1..Len(contentType) : at(i)}
        first    == CHOOSE i \in starts : \A j \in starts : i <= j
        from     == first + Len(key)
        stop     == CHOOSE e \in from..Len(contentType) :
                        /\ \A j \in from..e : contentType[j] # ";"
                        /\ e = Len(contentType) \/ contentType[e + 1] = ";"
    IN  IF starts = {} THEN [matched |-> FALSE, group |-> <<>>]
        ELSE [matched |-> TRUE, group |-> SubSeq(contentType, from, stop)]

\* line 131: contentType.match(/charset=([^;]+)/i); the leftmost position
\* where 'charset=' is followed by a character other than ';', and the
\* longest run without ';' that starts there
charsetMatch(contentType) ==
    LET key      == <<"c", "h", "a", "r", "s", "e", "t", "=">>
        lower    == toLowerCase(contentType)
        at(i)    == /\ i + Len(key) <= Len(contentType)
                    /\ SubSeq(lower, i, i + Len(key) - 1) = key
                    /\ contentType[i + Len(key)] # ";"
        starts   == {i \in 1..Len(contentType) : at(i)}
        first    == CHOOSE i \in starts : \A j \in starts : i <= j
        from     == first + Len(key)
        stop     == CHOOSE e \in from..Len(contentType) :
                        /\ \A j \in from..e : contentType[j] # ";"
                        /\ e = Len(contentType) \/ contentType[e + 1] = ";"
    IN  IF starts = {} THEN [matched |-> FALSE, group |-> <<>>]
        ELSE [matched |-> TRUE, group |-> SubSeq(contentType, from, stop)]

\* labels the TextDecoder constructor accepts (Encoding Standard), by encoding
Utf8Labels   == { <<"u", "t", "f", "-", "8">>, <<"u", "t", "f", "8">>, <<"u", "n", "i", "c", "o", "d", "e", "-", "1", "-", "1", "-", "u", "t", "f", "-", "8">> }
Latin1Labels == { <<"i", "s", "o", "-", "8", "8", "5", "9", "-", "1">>, <<"l", "a", "t", "i", "n", "1">>, <<"a", "s", "c", "i", "i">>, <<"u", "s", "-", "a", "s", "c", "i", "i">>,
                  <<"w", "i", "n", "d", "o", "w", "s", "-", "1", "2", "5", "2">> }

\* the character with code point n: ASCII as itself, others as "U+<n>"
CodePoint(n) ==
    IF n = 10 \/ (n >= 32 /\ n <= 126) THEN FromCharCode(n)
    ELSE "U+" \o ToString(n)

\* UTF-8 decoding with replacement (TextDecoder default, Response.text())
RECURSIVE utf8Decode(_)
utf8Decode(bytes) ==
    IF Len(bytes) = 0 THEN <<>>
    ELSE IF bytes[1] < 128 THEN <<CodePoint(bytes[1])>> \o utf8Decode(Tail(bytes))
    ELSE IF /\ bytes[1] >= 194 /\ bytes[1] <= 223
            /\ Len(bytes) >= 2 /\ bytes[2] >= 128 /\ bytes[2] <= 191
         THEN <<CodePoint(((bytes[1] - 192) * 64) + (bytes[2] - 128))>>
              \o utf8Decode(SubSeq(bytes, 3, Len(bytes)))
    ELSE <<CodePoint(65533)>> \o utf8Decode(Tail(bytes))

\* windows-1252 decoding of bytes outside 128..159
latin1Decode(bytes) == [i \in 1..Len(bytes) |-> CodePoint(bytes[i])]

CharsetError == "RangeError: unsupported encoding label"
BodyError    == "TypeError: body stream failed"

\* lines 129-140; response is [status, hasContentType, contentType, bytes, bodyOk]
decodeResponse(response) ==
    LET contentType == IF response.hasContentType THEN response.contentType ELSE <<>>
        match       == charsetMatch(contentType)
        label       == toLowerCase(trim(match.group))
    IN  IF match.matched /\ match.group # <<>>
        THEN IF label \notin (Utf8Labels \cup Latin1Labels)
             THEN [ok |-> FALSE, error |-> CharsetError, value |-> <<>>]
             ELSE IF ~response.bodyOk
             THEN [ok |-> FALSE, error |-> BodyError, value |-> <<>>]
             ELSE [ok |-> TRUE, error |-> "",
                   value |-> IF label \in Utf8Labels
                             THEN utf8Decode(response.bytes)
                             ELSE latin1Decode(response.bytes)]
        ELSE IF ~response.bodyOk
             THEN [ok |-> FALSE, error |-> BodyError, value |-> <<>>]
             ELSE [ok |-> TRUE, error |-> "", value |-> utf8Decode(response.bytes)]

(***************************************************************************)
(* ApiClient helpers (lines 101-115) and the CommandHandler methods        *)
(* (src/commands/commandHandler.ts) as builders of RequestOptions.         *)
(***************************************************************************)

NoParams        == [present |-> FALSE, entries |-> <<>>]
Params(entries) == [present |-> TRUE, entries |-> entries]

RequestOptions(method, path, queryParams, body) ==
    [method |-> method, path |-> path, queryParams |-> queryParams, body |-> body]

clientGet(path, queryParams) == RequestOptions(<<"G", "E", "T">>, path, queryParams, Undefined)
clientPost(path, body)       == RequestOptions(<<"P", "O", "S", "T">>, path, NoParams, body)
clientPut(path, body)        == RequestOptions(<<"P", "U", "T">>, path, NoParams, body)
clientDelete(path)           == RequestOptions(<<"D", "E", "L", "E", "T", "E">>, path, NoParams, Undefined)

\* a JavaScript value used as a condition
truthy(v) ==
    \/ v.t = "string" /\ v.s # <<>>
    \/ v.t = "number" /\ v.n # 0
    \/ v.t = "boolean" /\ v.b
    \/ v.t = "object"
    \/ v.t = "array"

\* the entries of an object literal built by conditional assignments
RECURSIVE assigned(_)
assigned(steps) ==
    IF Len(steps) = 0 THEN <<>>
    ELSE IF steps[1][1] THEN <<steps[1][2]>> \o assigned(Tail(steps))
    ELSE assigned(Tail(steps))

deepping(echo) ==
    clientGet(<<"/", "a", "p", "i", "/", "v", "1", "/", "d", "e", "e", "p", "p", "i", "n", "g">>,
              IF truthy(echo) THEN Params(<< <<<<"e", "c", "h", "o">>, echo>> >>) ELSE NoParams)

getNote(ownerId, noteId) ==
    clientGet(<<"/", "a", "p", "i", "/", "a", "i", "/", "v", "1", "/", "n", "o", "t", "e", "s", "/">> \o noteId, Params(<< <<<<"o", "w", "n", "e", "r", "_", "i", "d">>, ownerId>> >>))

listNotes(options) ==
    clientGet(<<"/", "a", "p", "i", "/", "a", "i", "/", "v", "1", "/", "n", "o", "t", "e", "s">>,
        Params(assigned(<<
            <<options.page.t # "undefined", <<<<"p", "a", "g", "e">>, options.page>> >>,
            <<options.itemsPerPage.t # "undefined",
              <<<<"i", "t", "e", "m", "s", "_", "p", "e", "r", "_", "p", "a", "g", "e">>, options.itemsPerPage>> >>,
            <<truthy(options.schemaName), <<<<"s", "c", "h", "e", "m", "a", "_", "n", "a", "m", "e">>, options.schemaName>> >>,
            <<truthy(options.summary), <<<<"s", "u", "m", "m", "a", "r", "y">>, options.summary>> >>,
            <<TRUE, <<<<"o", "w", "n", "e", "r", "_", "i", "d">>, options.ownerId>> >> >>)))

listLeads(options) ==
    clientGet(<<"/", "a", "p", "i", "/", "v", "1", "/", "l", "e", "a", "d">>,
        Params(assigned(<<
            <<options.page.t # "undefined", <<<<"p", "a", "g", "e">>, options.page>> >>,
            <<options.itemsPerPage.t # "undefined",
              <<<<"i", "t", "e", "m", "s", "_", "p", "e", "r", "_", "p", "a", "g", "e">>, options.itemsPerPage>> >>,
            <<truthy(options.orderBy), <<<<"o", "r", "d", "e", "r", "_", "b", "y">>, options.orderBy>> >>,
            <<truthy(options.leadId),
              <<<<"i", "d">>, Str(<<"e", "q", "u", "a", "l", "s", ":">> \o toStringValue(options.leadId))>> >> >>)))

getLead(leadId) == clientGet(<<"/", "a", "p", "i", "/", "v", "1", "/", "l", "e", "a", "d", "?", "i", "d", "=">> \o leadId, NoParams)

updateNote(ownerId, noteId, summary) ==
    clientPut(<<"/", "a", "p", "i", "/", "a", "i", "/", "v", "1", "/", "n", "o", "t", "e", "s", "/">> \o noteId,
              Obj(<< <<<<"o", "w", "n", "e", "r", "_", "i", "d">>, ownerId>>, <<<<"s", "u", "m", "m", "a", "r", "y">>, summary>> >>))

deleteNote(noteId) == clientDelete(<<"/", "a", "p", "i", "/", "a", "i", "/", "v", "1", "/", "n", "o", "t", "e", "s", "/">> \o noteId)

(***************************************************************************)
(* The environment: credentials, clock, random source, callers, server.    *)
(***************************************************************************)

\* the clock starts at ClockStart and advances at most MaxTicks times
ClockStart == 9
MaxTicks   == 1
MaxClock   == ClockStart + MaxTicks

\* pipeline slots; the caller awaits a request before it issues the next
Calls == {1}

BaseUrl == <<"h", "t", "t", "p", "s", ":", "/", "/", "a", "p", "i", ".", "e", "x", "a", "m", "p", "l", "e", ".", "c", "o", "m">>

AccessKeyId == <<"A", "K", "_", "1">>

\* 'SK_' followed by the base64url form of a PKCS#8 Ed25519 key
GoodSecret == <<"S", "K", "_", "M", "C", "4", "C", "A", "Q", "A", "w", "B", "Q", "Y", "D", "K", "2", "V", "w", "B", "C", "I", "E", "I", "A", "E", "C", "A", "w", "Q", "F", "B", "g", "c", "I", "C", "Q", "o", "L", "D", "A", "0", "O", "D", "x", "A", "R", "E", "h", "M", "U", "F", "R", "Y", "X", "G", "B", "k", "a", "G", "x", "w", "d", "H", "h", "8", "g">>
\* the same key material without the prefix, and a prefix without a key
BareSecret == <<"M", "C", "4", "C", "A", "Q", "A", "w", "B", "Q", "Y", "D", "K", "2", "V", "w", "B", "C", "I", "E", "I", "A", "E", "C", "A", "w", "Q", "F", "B", "g", "c", "I", "C", "Q", "o", "L", "D", "A", "0", "O", "D", "x", "A", "R", "E", "h", "M", "U", "F", "R", "Y", "X", "G", "B", "k", "a", "G", "x", "w", "d", "H", "h", "8", "g">>
JunkSecret == <<"S", "K", "_", "A", "A", "A", "A">>
\* the key behind a lower-case prefix, and the prefix alone
LowerSecret == <<"s", "k", "_", "M", "C", "4", "C", "A", "Q", "A", "w", "B", "Q", "Y", "D", "K", "2", "V", "w", "B", "C", "I", "E", "I", "A", "E", "C", "A", "w", "Q", "F", "B", "g", "c", "I", "C", "Q", "o", "L", "D", "A", "0", "O", "D", "x", "A", "R", "E", "h", "M", "U", "F", "R", "Y", "X", "G", "B", "k", "a", "G", "x", "w", "d", "H", "h", "8", "g">>
PrefixOnlySecret == <<"S", "K", "_">>

Secrets == {GoodSecret, BareSecret, JunkSecret, LowerSecret, PrefixOnlySecret}

\* values randomBytes(16) may return
RandomBytes ==
    { <<0, 1, 2, 3, 4, 5, 6, 7, 8, 9, 10, 11, 12, 13, 14, 15>>,
      <<251, 255, 191, 62, 63, 250, 0, 255, 16, 32, 64, 128, 200, 100, 50, 25>> }

ListOptions(page, itemsPerPage, schemaName, summary, ownerId) ==
    [page |-> page, itemsPerPage |-> itemsPerPage, schemaName |-> schemaName,
     summary |-> summary, ownerId |-> ownerId]

LeadOptions(page, itemsPerPage, orderBy, leadId) ==
    [page |-> page, itemsPerPage |-> itemsPerPage, orderBy |-> orderBy,
     leadId |-> leadId]

Response(status, hasContentType, contentType, bytes, bodyOk) ==
    [status |-> status, hasContentType |-> hasContentType,
     contentType |-> contentType, bytes |-> bytes, bodyOk |-> bodyOk]

\* bytes of '{"a":1}', of 'no' and of 'caf' followed by an e-acute in UTF-8
JsonBytes == <<123, 34, 97, 34, 58, 49, 125>>
TextBytes == <<110, 111>>
CafeBytes == <<99, 97, 102, 195, 169>>

\* reasons the promise of fetchImpl may reject with
FetchError == "TypeError: fetch failed"
AbortError == "AbortError: This operation was aborted"
FetchErrors == {FetchError, AbortError}

(***************************************************************************)
(* JSON.parse for the texts the model reads: a scalar (null, true, false,  *)
(* a non-negative integer, a string without escapes) or an object of such  *)
(* scalars written without blanks inside, whose strings hold no comma.     *)
(* Every other text of the model is not JSON.                              *)
(***************************************************************************)

RECURSIVE jsonTrim(_)
jsonTrim(s) ==
    LET IsJsonSpace(c) == c \in {" ", NL}
    IN
    IF Len(s) > 0 /\ IsJsonSpace(s[1]) THEN jsonTrim(Tail(s))
    ELSE IF Len(s) > 0 /\ IsJsonSpace(s[Len(s)]) THEN jsonTrim(dropLast(s))
    ELSE s

IsDigit(c) == c \in {"0", "1", "2", "3", "4", "5", "6", "7", "8", "9"}

RECURSIVE digitsValue(_)
digitsValue(s) ==
    IF Len(s) = 0 THEN 0
    ELSE (digitsValue(dropLast(s)) * 10) + (CharCode(s[Len(s)]) - 48)

IsJsonString(s) ==
    /\ Len(s) >= 2
    /\ s[1] = "\""
    /\ s[Len(s)] = "\""
    /\ \A i \in 2..(Len(s) - 1) : s[i] \notin {"\"", "\\", NL}

NotJson == [ok |-> FALSE, value |-> Undefined]

jsonParse(text) ==
    LET jsonParseScalar(s) ==
            LET IsJsonNumber(s0) ==
                    /\ Len(s0) > 0
                    /\ \A i \in 1..Len(s0) : IsDigit(s0[i])
                    /\ Len(s0) > 1 => s0[1] # "0"
            IN
            IF s = <<"n", "u", "l", "l">> THEN [ok |-> TRUE, value |-> Null]
            ELSE IF s = <<"t", "r", "u", "e">> THEN [ok |-> TRUE, value |-> Bool(TRUE)]
            ELSE IF s = <<"f", "a", "l", "s", "e">> THEN [ok |-> TRUE, value |-> Bool(FALSE)]
            ELSE IF IsJsonNumber(s) THEN [ok |-> TRUE, value |-> Num(digitsValue(s))]
            ELSE IF IsJsonString(s) THEN [ok |-> TRUE, value |-> Str(SubSeq(s, 2, Len(s) - 1))]
            ELSE NotJson
    IN
    LET jsonParseMember(s) ==
            LET colon == indexOf(s, ":")
                key   == SubSeq(s, 1, colon - 1)
                val   == jsonParseScalar(sliceFrom(s, colon))
            IN  IF colon = 0 \/ ~IsJsonString(key) \/ ~val.ok
                THEN [ok |-> FALSE, entry |-> <<>>]
                ELSE [ok |-> TRUE, entry |-> <<SubSeq(key, 2, Len(key) - 1), val.value>>]
    IN
    LET s       == jsonTrim(text)
        inner   == SubSeq(s, 2, Len(s) - 1)
        members == split(inner, ",")
        parsed  == [i \in 1..Len(members) |-> jsonParseMember(members[i])]
    IN  IF Len(s) >= 2 /\ s[1] = "{" /\ s[Len(s)] = "}"
        THEN IF inner = <<>> THEN [ok |-> TRUE, value |-> Obj(<<>>)]
             ELSE IF \A i \in 1..Len(parsed) : parsed[i].ok
             THEN [ok |-> TRUE,
                   value |-> Obj([i \in 1..Len(parsed) |-> parsed[i].entry])]
             ELSE NotJson
        ELSE jsonParseScalar(s)

(***************************************************************************)
(* Objects: property read, property assignment, a ?? b.                    *)
(***************************************************************************)

hasProperty(obj, key) == \E i \in 1..Len(obj.o) : obj.o[i][1] = key

getProperty(obj, key) ==
    IF hasProperty(obj, key)
    THEN obj.o[CHOOSE i \in 1..Len(obj.o) : obj.o[i][1] = key][2]
    ELSE Undefined

setProperty(obj, key, value) ==
    IF hasProperty(obj, key)
    THEN Obj([i \in 1..Len(obj.o) |->
                 IF obj.o[i][1] = key THEN <<key, value>> ELSE obj.o[i]])
    ELSE Obj(obj.o \o << <<key, value>> >>)

RECURSIVE setProperties(_, _)
setProperties(obj, entries) ==
    IF Len(entries) = 0 THEN obj
    ELSE setProperties(setProperty(obj, entries[1][1], entries[1][2]), Tail(entries))

nullish(a, b) == IF a.t \in {"undefined", "null"} THEN b ELSE a

(***************************************************************************)
(* The file system read by readFile, the clock and the UUID source.        *)
(***************************************************************************)

Files ==
    LET File(path, bytes) == [path |-> path, bytes |-> bytes]
    IN
    { File(<<"n", ".", "t", "x", "t">>, <<104, 105>>),
      File(<<"b", ".", "b", "i", "n">>, <<255, 251>>),
      File(<<"l", ".", "j", "s", "o", "n">>, bufferFromString(<<"{", "\"", "i", "d", "\"", ":", "\"", "L", "1", "\"", ",", "\"", "s", "t", "a", "g", "e", "\"", ":", "\"", "o", "f", "f", "e", "r", "\"", "}">>)),
      File(<<"b", "a", "d", ".", "j", "s", "o", "n">>, <<110, 111>>) }

\* readFile(path): the bytes, or the rejection of the promise
readFile(path) ==
    LET MissingFileMessage(path0) ==
            <<"E", "N", "O", "E", "N", "T", ":", " ", "n", "o", " ", "s", "u", "c", "h", " ", "f", "i", "l", "e", " ", "o", "r", " ", "d", "i", "r", "e", "c", "t", "o", "r", "y", ",", " ", "o", "p", "e", "n", " ", "'">> \o path0 \o <<"'">>
    IN
    IF \E f \in Files : f.path = path
    THEN [ok |-> TRUE, bytes |-> (CHOOSE f \in Files : f.path = path).bytes,
          message |-> <<>>]
    ELSE [ok |-> FALSE, bytes |-> <<>>, message |-> MissingFileMessage(path)]

\* readFile(path, 'utf8')
readFileUtf8(path) ==
    [ok      |-> readFile(path).ok,
     text    |-> utf8Decode(readFile(path).bytes),
     message |-> readFile(path).message]

\* new Date(ms).toISOString() within the first minute of the epoch
toISOString(ms) ==
    LET padStart(s, n) == IF Len(s) >= n THEN s ELSE [i \in 1..(n - Len(s)) |-> "0"] \o s
    IN
    <<"1", "9", "7", "0", "-", "0", "1", "-", "0", "1", "T", "0", "0", ":", "0", "0", ":">> \o padStart(numberToString((ms \div 1000) % 60), 2)
        \o <<".">> \o padStart(numberToString(ms % 1000), 3) \o <<"Z">>

\* values randomUUID() may return
Uuids == { <<"1", "7", "d", "9", "b", "d", "b", "7", "-", "a", "d", "b", "6", "-", "4", "d", "6", "c", "-", "9", "5", "d", "c", "-", "f", "f", "1", "7", "b", "5", "e", "3", "c", "7", "d", "9">> }

(***************************************************************************)
(* ApiResponse.json and CommandHandler.assertSuccess.                      *)
(***************************************************************************)

\* client.ts lines 27-33; response is [status, body]
json(response) ==
    IF jsonParse(response.body).ok THEN jsonParse(response.body).value ELSE Null

errorText(context, status, body) ==
    context \o <<":", " ">> \o numberToString(status) \o <<" ", "-", " ">> \o body

\* a policy that lets every status below 400 pass
assertSuccessBelow400(response, context) ==
    IF response.status >= 400
    THEN [threw |-> TRUE, message |-> errorText(context, response.status, response.body)]
    ELSE [threw |-> FALSE, message |-> <<>>]

\* commandHandler.ts lines 359-363
assertSuccess(response, context) ==
    IF ~isSuccess(response.status)
    THEN [threw |-> TRUE, message |-> errorText(context, response.status, response.body)]
    ELSE [threw |-> FALSE, message |-> <<>>]

(***************************************************************************)
(* The commands up to their client call: the request they make, or the     *)
(* error they throw before it.                                             *)
(***************************************************************************)

NoRequest == RequestOptions(<<>>, <<>>, NoParams, Undefined)

Attempt(request) == [ok |-> TRUE, message |-> <<>>, request |-> request]

Failure(message) == [ok |-> FALSE, message |-> message, request |-> NoRequest]

\* lines 102-106
createActivity(options) == clientPost(<<"/", "a", "p", "i", "/", "v", "1", "/", "a", "c", "t", "i", "v", "i", "t", "y">>, options)

EitherError == <<"E", "i", "t", "h", "e", "r", " ", "d", "a", "t", "a", " ", "o", "r", " ", "f", "i", "l", "e", "P", "a", "t", "h", " ", "m", "u", "s", "t", " ", "b", "e", " ", "p", "r", "o", "v", "i", "d", "e", "d">>

\* a loader that prefers the data argument to the file
loadNoteDataPreferData(type, data, filePath) ==
    IF truthy(data) THEN [ok |-> TRUE, value |-> data.s, message |-> <<>>]
    ELSE IF truthy(filePath)
    THEN IF ~readFile(filePath.s).ok
         THEN [ok |-> FALSE, value |-> <<>>, message |-> readFile(filePath.s).message]
         ELSE IF startsWith(type.s, <<"t", "e", "x", "t", "/">>)
         THEN [ok |-> TRUE, value |-> readFileUtf8(filePath.s).text, message |-> <<>>]
         ELSE [ok |-> TRUE, value |-> bufferToBase64(readFile(filePath.s).bytes),
               message |-> <<>>]
    ELSE [ok |-> FALSE, value |-> <<>>, message |-> EitherError]

\* lines 365-387
loadNoteData(type, data, filePath) ==
    IF truthy(filePath)
    THEN IF ~readFile(filePath.s).ok
         THEN [ok |-> FALSE, value |-> <<>>, message |-> readFile(filePath.s).message]
         ELSE IF startsWith(type.s, <<"t", "e", "x", "t", "/">>)
         THEN [ok |-> TRUE, value |-> readFileUtf8(filePath.s).text, message |-> <<>>]
         ELSE [ok |-> TRUE, value |-> bufferToBase64(readFile(filePath.s).bytes),
               message |-> <<>>]
    ELSE IF truthy(data) THEN [ok |-> TRUE, value |-> data.s, message |-> <<>>]
    ELSE [ok |-> FALSE, value |-> <<>>, message |-> EitherError]

NoteOptions(ownerId, type, data, filePath, role, models) ==
    [ownerId |-> ownerId, type |-> type, data |-> data, filePath |-> filePath,
     role |-> role, models |-> models]

NoNoteOptions ==
    NoteOptions(Undefined, Undefined, Undefined, Undefined, Undefined, Undefined)

\* lines 116-131
createNote(options) ==
    LET noteData == loadNoteData(options.type, options.data, options.filePath)
    IN  IF ~noteData.ok THEN Failure(noteData.message)
        ELSE Attempt(clientPost(<<"/", "a", "p", "i", "/", "a", "i", "/", "v", "1", "/", "n", "o", "t", "e", "s">>,
                 Obj(<< <<<<"o", "w", "n", "e", "r", "_", "i", "d">>, options.ownerId>>,
                        <<<<"t", "y", "p", "e">>, options.type>>,
                        <<<<"d", "a", "t", "a">>, Str(noteData.value)>>,
                        <<<<"r", "o", "l", "e">>, nullish(options.role, Str(<<"r", "e", "a", "l", "_", "e", "s", "t", "a", "t", "e">>))>>,
                        <<<<"m", "o", "d", "e", "l", "s">>, options.models>> >>)))

PageOptions(page, itemsPerPage, a, b, c, d) ==
    [page |-> page, itemsPerPage |-> itemsPerPage, a |-> a, b |-> b, c |-> c, d |-> d]

\* lines 183-193; a is userId, b is leadId
listActivities(options) ==
    clientGet(<<"/", "a", "p", "i", "/", "v", "1", "/", "a", "c", "t", "i", "v", "i", "t", "y">>,
        Params(assigned(<<
            <<options.page.t # "undefined", <<<<"p", "a", "g", "e">>, options.page>> >>,
            <<options.itemsPerPage.t # "undefined",
              <<<<"i", "t", "e", "m", "s", "_", "p", "e", "r", "_", "p", "a", "g", "e">>, options.itemsPerPage>> >>,
            <<truthy(options.a), <<<<"u", "s", "e", "r", "I", "d">>, options.a>> >>,
            <<truthy(options.b), <<<<"l", "e", "a", "d", "I", "d">>, options.b>> >> >>)))

\* lines 256-267; a is leadId, b is userId, c is propertyId
listVisits(options) ==
    clientGet(<<"/", "a", "p", "i", "/", "v", "1", "/", "v", "i", "s", "i", "t">>,
        Params(assigned(<<
            <<options.page.t # "undefined", <<<<"p", "a", "g", "e">>, options.page>> >>,
            <<options.itemsPerPage.t # "undefined",
              <<<<"i", "t", "e", "m", "s", "_", "p", "e", "r", "_", "p", "a", "g", "e">>, options.itemsPerPage>> >>,
            <<truthy(options.a), <<<<"l", "e", "a", "d", "I", "d">>, options.a>> >>,
            <<truthy(options.b), <<<<"u", "s", "e", "r", "I", "d">>, options.b>> >>,
            <<truthy(options.c), <<<<"p", "r", "o", "p", "e", "r", "t", "y", "_", "i", "d">>, options.c>> >> >>)))

\* lines 269-283; a is logId, b is leadId, c is visitId, d is ownerId
listLogs(options) ==
    clientGet(<<"/", "a", "p", "i", "/", "v", "1", "/", "l", "o", "g">>,
        Params(assigned(<<
            <<options.page.t # "undefined", <<<<"p", "a", "g", "e">>, options.page>> >>,
            <<options.itemsPerPage.t # "undefined",
              <<<<"i", "t", "e", "m", "s", "_", "p", "e", "r", "_", "p", "a", "g", "e">>, options.itemsPerPage>> >>,
            <<truthy(options.a), <<<<"i", "d">>, options.a>> >>,
            <<truthy(options.b), <<<<"l", "e", "a", "d", "I", "d">>, options.b>> >>,
            <<truthy(options.c), <<<<"v", "i", "s", "i", "t", "I", "d">>, options.c>> >>,
            <<truthy(options.d), <<<<"o", "w", "n", "e", "r", "I", "d">>, options.d>> >>,
            <<TRUE, <<<<"o", "r", "d", "e", "r", "_", "b", "y">>, Str(<<"u", "p", "d", "a", "t", "e", "d", "A", "t", ":", "d", "e", "s", "c">>)>> >> >>)))

\* lines 334-338
deleteVisit(rowId) == clientDelete(<<"/", "a", "p", "i", "/", "v", "1", "/", "v", "i", "s", "i", "t", "/">> \o rowId)

NotAnObjectMessage == <<"T", "y", "p", "e", "E", "r", "r", "o", "r", ":", " ", "c", "a", "n", "n", "o", "t", " ", "c", "r", "e", "a", "t", "e", " ", "p", "r", "o", "p", "e", "r", "t", "y", " ", "o", "n", " ", "a", " ", "v", "a", "l", "u", "e", " ", "t", "h", "a", "t", " ", "i", "s", " ", "n", "o", "t", " ", "a", "n", " ", "o", "b", "j", "e", "c", "t">>

\* lines 199-212, 289-302, 343-352: the file read and parsed, or the error
loadJsonFile(path) ==
    LET \* the message of the SyntaxError of JSON.parse
        SyntaxErrorMessage == <<"J", "S", "O", "N", " ", "P", "a", "r", "s", "e", " ", "e", "r", "r", "o", "r", ":", " ", "U", "n", "e", "x", "p", "e", "c", "t", "e", "d", " ", "i", "d", "e", "n", "t", "i", "f", "i", "e", "r">>
        ReadFailedMessage(path0, message) ==
            <<"F", "a", "i", "l", "e", "d", " ", "t", "o", " ", "r", "e", "a", "d", " ", "J", "S", "O", "N", " ", "f", "i", "l", "e", " ", "\"">> \o path0 \o <<"\"", ":", " ">> \o message
        InvalidJsonMessage(path0) ==
            <<"I", "n", "v", "a", "l", "i", "d", " ", "J", "S", "O", "N", " ", "i", "n", " ", "f", "i", "l", "e", " ", "\"">> \o path0 \o <<"\"", ":", " ">> \o SyntaxErrorMessage
    IN
    IF ~readFileUtf8(path).ok
    THEN [ok |-> FALSE, value |-> Undefined,
          message |-> ReadFailedMessage(path, readFileUtf8(path).message)]
    ELSE IF ~jsonParse(readFileUtf8(path).text).ok
    THEN [ok |-> FALSE, value |-> Undefined, message |-> InvalidJsonMessage(path)]
    ELSE [ok |-> TRUE, value |-> jsonParse(readFileUtf8(path).text).value,
          message |-> <<>>]

\* lines 199-212 and 289-302: the payload a create command starts from
basePayload(filePath) ==
    IF truthy(filePath) THEN loadJsonFile(filePath.s)
    ELSE [ok |-> TRUE, value |-> Obj(<<>>), message |-> <<>>]

LeadFields(id, tenantId, ownerUserId, pipeline, stage, status, name, email, phone, sourceChannel, sourceName, tags, filePath) ==
    [id |-> id, tenantId |-> tenantId, ownerUserId |-> ownerUserId,
     pipeline |-> pipeline, stage |-> stage, status |-> status,
     temperature |-> Undefined, name |-> name, email |-> email, phone |-> phone,
     sourceChannel |-> sourceChannel, sourceName |-> sourceName, tags |-> tags,
     filePath |-> filePath]

\* lines 195-254; uuid is what randomUUID() returns, ms what the clock shows
createLead(options, uuid, ms) ==
    LET \* lines 228-234: the contact object
        leadContact(options0, payload) ==
            LET existingContact == nullish(getProperty(payload, <<"c", "o", "n", "t", "a", "c", "t">>), Obj(<<>>))
            IN  setProperties(existingContact,
                    << <<<<"n", "a", "m", "e">>, nullish(options0.name, getProperty(existingContact, <<"n", "a", "m", "e">>))>> >>
                    \o (IF truthy(options0.email) THEN << <<<<"e", "m", "a", "i", "l">>, options0.email>> >> ELSE <<>>)
                    \o (IF truthy(options0.phone)
                        THEN << <<<<"p", "r", "i", "m", "a", "r", "y", "P", "h", "o", "n", "e">>, options0.phone>>,
                                <<<<"p", "h", "o", "n", "e", "s">>, Arr(<<options0.phone>>)>> >>
                        ELSE <<>>))
        \* lines 237-244: the source object
        leadSource(options0, payload) ==
            LET existingSource == nullish(getProperty(payload, <<"s", "o", "u", "r", "c", "e">>), Obj(<<>>))
            IN  setProperties(existingSource,
                    << <<<<"c", "h", "a", "n", "n", "e", "l">>, options0.sourceChannel>> >>
                    \o (IF truthy(options0.sourceName)
                        THEN << <<<<"n", "a", "m", "e">>, options0.sourceName>> >> ELSE <<>>))
        \* lines 214-249: the payload after the assignments
        leadPayload(options0, payload, uuid0, at) ==
            setProperties(payload,
                << <<<<"i", "d">>, nullish(options0.id, nullish(getProperty(payload, <<"i", "d">>), Str(uuid0)))>>,
                   <<<<"t", "e", "n", "a", "n", "t", "I", "d">>, nullish(options0.tenantId, getProperty(payload, <<"t", "e", "n", "a", "n", "t", "I", "d">>))>>,
                   <<<<"o", "w", "n", "e", "r", "U", "s", "e", "r", "I", "d">>,
                     nullish(options0.ownerUserId, getProperty(payload, <<"o", "w", "n", "e", "r", "U", "s", "e", "r", "I", "d">>))>>,
                   <<<<"p", "i", "p", "e", "l", "i", "n", "e">>, nullish(options0.pipeline, getProperty(payload, <<"p", "i", "p", "e", "l", "i", "n", "e">>))>>,
                   <<<<"s", "t", "a", "g", "e">>,
                     nullish(options0.stage, nullish(getProperty(payload, <<"s", "t", "a", "g", "e">>), Str(<<"n", "e", "w">>)))>>,
                   <<<<"s", "t", "a", "t", "u", "s">>,
                     nullish(options0.status, nullish(getProperty(payload, <<"s", "t", "a", "t", "u", "s">>), Str(<<"o", "p", "e", "n">>)))>>,
                   <<<<"t", "e", "m", "p", "e", "r", "a", "t", "u", "r", "e">>,
                     nullish(options0.temperature,
                             nullish(getProperty(payload, <<"t", "e", "m", "p", "e", "r", "a", "t", "u", "r", "e">>), Str(<<"N", "e", "w">>)))>>,
                   <<<<"c", "r", "e", "a", "t", "e", "d", "A", "t">>, nullish(getProperty(payload, <<"c", "r", "e", "a", "t", "e", "d", "A", "t">>), Str(at))>>,
                   <<<<"u", "p", "d", "a", "t", "e", "d", "A", "t">>, Str(at)>>,
                   <<<<"f", "i", "r", "s", "t", "T", "o", "u", "c", "h", "A", "t">>, nullish(getProperty(payload, <<"f", "i", "r", "s", "t", "T", "o", "u", "c", "h", "A", "t">>), Str(at))>>,
                   <<<<"c", "o", "n", "t", "a", "c", "t">>, leadContact(options0, payload)>> >>
                \o (IF truthy(options0.sourceChannel)
                    THEN << <<<<"s", "o", "u", "r", "c", "e">>, leadSource(options0, payload)>> >> ELSE <<>>)
                \o (IF options0.tags.t = "array" /\ Len(options0.tags.o) > 0
                    THEN << <<<<"t", "a", "g", "s">>, options0.tags>> >> ELSE <<>>))
    IN
    LET base == basePayload(options.filePath)
    IN  IF ~base.ok THEN Failure(base.message)
        ELSE IF base.value.t # "object" THEN Failure(NotAnObjectMessage)
        ELSE Attempt(clientPost(<<"/", "a", "p", "i", "/", "v", "1", "/", "l", "e", "a", "d">>,
                 leadPayload(options, base.value, uuid, toISOString(ms))))

VisitFields(id, leadId, userId, propertyId, scheduledStartAt, scheduledEndAt, status, feedback, attendees, nextFollowUpAt, filePath) ==
    [id |-> id, leadId |-> leadId, userId |-> userId, propertyId |-> propertyId,
     scheduledStartAt |-> scheduledStartAt, scheduledEndAt |-> scheduledEndAt,
     status |-> status, feedback |-> feedback, attendees |-> attendees,
     nextFollowUpAt |-> nextFollowUpAt, filePath |-> filePath]

\* lines 285-332
createVisit(options, uuid, ms) ==
    LET \* lines 304-327: the payload after the assignments
        visitPayload(options0, payload, uuid0, at) ==
            setProperties(payload,
                << <<<<"i", "d">>, nullish(options0.id, nullish(getProperty(payload, <<"i", "d">>), Str(uuid0)))>>,
                   <<<<"l", "e", "a", "d", "I", "d">>, nullish(options0.leadId, getProperty(payload, <<"l", "e", "a", "d", "I", "d">>))>>,
                   <<<<"u", "s", "e", "r", "I", "d">>, nullish(options0.userId, getProperty(payload, <<"u", "s", "e", "r", "I", "d">>))>>,
                   <<<<"p", "r", "o", "p", "e", "r", "t", "y", "I", "d">>,
                     nullish(options0.propertyId, getProperty(payload, <<"p", "r", "o", "p", "e", "r", "t", "y", "I", "d">>))>>,
                   <<<<"s", "c", "h", "e", "d", "u", "l", "e", "d", "S", "t", "a", "r", "t", "A", "t">>,
                     nullish(options0.scheduledStartAt,
                             nullish(getProperty(payload, <<"s", "c", "h", "e", "d", "u", "l", "e", "d", "S", "t", "a", "r", "t", "A", "t">>), Str(at)))>>,
                   <<<<"s", "t", "a", "t", "u", "s">>,
                     nullish(options0.status,
                             nullish(getProperty(payload, <<"s", "t", "a", "t", "u", "s">>), Str(<<"s", "c", "h", "e", "d", "u", "l", "e", "d">>)))>>,
                   <<<<"c", "r", "e", "a", "t", "e", "d", "A", "t">>, nullish(getProperty(payload, <<"c", "r", "e", "a", "t", "e", "d", "A", "t">>), Str(at))>>,
                   <<<<"u", "p", "d", "a", "t", "e", "d", "A", "t">>, Str(at)>> >>
                \o (IF truthy(options0.scheduledEndAt)
                    THEN << <<<<"s", "c", "h", "e", "d", "u", "l", "e", "d", "E", "n", "d", "A", "t">>, options0.scheduledEndAt>> >> ELSE <<>>)
                \o (IF truthy(options0.feedback)
                    THEN << <<<<"f", "e", "e", "d", "b", "a", "c", "k">>, options0.feedback>> >> ELSE <<>>)
                \o (IF options0.attendees.t = "array" /\ Len(options0.attendees.o) > 0
                    THEN << <<<<"a", "t", "t", "e", "n", "d", "e", "e", "s">>, options0.attendees>> >> ELSE <<>>)
                \o (IF truthy(options0.nextFollowUpAt)
                    THEN << <<<<"n", "e", "x", "t", "F", "o", "l", "l", "o", "w", "U", "p", "A", "t">>, options0.nextFollowUpAt>> >> ELSE <<>>))
    IN
    LET base == basePayload(options.filePath)
    IN  IF ~base.ok THEN Failure(base.message)
        ELSE IF base.value.t # "object" THEN Failure(NotAnObjectMessage)
        ELSE Attempt(clientPost(<<"/", "a", "p", "i", "/", "v", "1", "/", "v", "i", "s", "i", "t">>,
                 visitPayload(options, base.value, uuid, toISOString(ms))))

\* lines 340-357
updateLead(leadId, filePath) ==
    IF ~loadJsonFile(filePath).ok THEN Failure(loadJsonFile(filePath).message)
    ELSE Attempt(clientPut(<<"/", "a", "p", "i", "/", "v", "1", "/", "l", "e", "a", "d", "/">> \o leadId, loadJsonFile(filePath).value))

\* the context each command hands to assertSuccess
Context ==
    ("createActivity" :> <<"F", "a", "i", "l", "e", "d", " ", "t", "o", " ", "c", "r", "e", "a", "t", "e", " ", "a", "c", "t", "i", "v", "i", "t", "y">>)
    @@ ("deepping" :> <<"D", "e", "e", "p", "P", "i", "n", "g", " ", "f", "a", "i", "l", "e", "d">>)
    @@ ("createNote" :> <<"F", "a", "i", "l", "e", "d", " ", "t", "o", " ", "c", "r", "e", "a", "t", "e", " ", "n", "o", "t", "e">>)
    @@ ("getNote" :> <<"F", "a", "i", "l", "e", "d", " ", "t", "o", " ", "g", "e", "t", " ", "n", "o", "t", "e">>)
    @@ ("listNotes" :> <<"F", "a", "i", "l", "e", "d", " ", "t", "o", " ", "l", "i", "s", "t", " ", "n", "o", "t", "e", "s">>)
    @@ ("listLeads" :> <<"F", "a", "i", "l", "e", "d", " ", "t", "o", " ", "l", "i", "s", "t", " ", "l", "e", "a", "d">>)
    @@ ("getLead" :> <<"F", "a", "i", "l", "e", "d", " ", "t", "o", " ", "g", "e", "t", " ", "l", "e", "a", "d">>)
    @@ ("updateNote" :> <<"F", "a", "i", "l", "e", "d", " ", "t", "o", " ", "u", "p", "d", "a", "t", "e", " ", "n", "o", "t", "e">>)
    @@ ("deleteNote" :> <<"F", "a", "i", "l", "e", "d", " ", "t", "o", " ", "d", "e", "l", "e", "t", "e", " ", "n", "o", "t", "e">>)
    @@ ("listActivities" :> <<"F", "a", "i", "l", "e", "d", " ", "t", "o", " ", "l", "i", "s", "t", " ", "a", "c", "t", "i", "v", "i", "t", "i", "e", "s">>)
    @@ ("createLead" :> <<"F", "a", "i", "l", "e", "d", " ", "t", "o", " ", "c", "r", "e", "a", "t", "e", " ", "l", "e", "a", "d">>)
    @@ ("listVisits" :> <<"F", "a", "i", "l", "e", "d", " ", "t", "o", " ", "l", "i", "s", "t", " ", "v", "i", "s", "i", "t", "s">>)
    @@ ("listLogs" :> <<"F", "a", "i", "l", "e", "d", " ", "t", "o", " ", "l", "i", "s", "t", " ", "l", "o", "g", "s">>)
    @@ ("createVisit" :> <<"F", "a", "i", "l", "e", "d", " ", "t", "o", " ", "c", "r", "e", "a", "t", "e", " ", "v", "i", "s", "i", "t">>)
    @@ ("deleteVisit" :> <<"F", "a", "i", "l", "e", "d", " ", "t", "o", " ", "d", "e", "l", "e", "t", "e", " ", "v", "i", "s", "i", "t">>)
    @@ ("updateLead" :> <<"F", "a", "i", "l", "e", "d", " ", "t", "o", " ", "u", "p", "d", "a", "t", "e", " ", "l", "e", "a", "d">>)

\* a command invoked with given arguments: its name and what it does up to
\* the client call
Command(name, attempt) == [name |-> name, attempt |-> attempt, options |-> NoNoteOptions]

\* createNote invoked with options
NoteCommand(options) ==
    [name |-> "createNote", attempt |-> createNote(options), options |-> options]

(***************************************************************************)
(* The state of a command invocation.                                      *)
(***************************************************************************)

NoError == [raised |-> FALSE, from |-> "", reason |-> "", message |-> <<>>]

Thrown(from, reason, message) ==
    [raised |-> TRUE, from |-> from, reason |-> reason, message |-> message]

NoCommand ==
    LET NoApiResponse == [present |-> FALSE, status |-> 0, body |-> <<>>]
    IN
    [ pc       |-> "none",
      name     |-> "",
      options  |-> NoNoteOptions,
      request  |-> NoRequest,
      called   |-> FALSE,
      response |-> NoApiResponse,
      value    |-> Undefined,
      error    |-> NoError,
      console  |-> 0 ]

\* the command has run up to its client call, or has thrown before it
invoked(command) ==
    IF command.attempt.ok
    THEN [ NoCommand EXCEPT
             !.pc      = "calling",
             !.name    = command.name,
             !.options = command.options,
             !.request = command.attempt.request,
             !.called  = TRUE ]
    ELSE [ NoCommand EXCEPT
             !.pc      = "thrown",
             !.name    = command.name,
             !.options = command.options,
             !.error   = Thrown("command", "Error", command.attempt.message) ]

(***************************************************************************)
(* The command line program (src/cli.ts): parseArgs.                       *)
(***************************************************************************)

\* lines 14-31
COMMANDS ==
    { <<"d", "e", "e", "p", "p", "i", "n", "g">>, <<"c", "r", "e", "a", "t", "e", "-", "a", "c", "t", "i", "v", "i", "t", "y">>, <<"l", "i", "s", "t", "-", "a", "c", "t", "i", "v", "i", "t", "i", "e", "s">>, <<"c", "r", "e", "a", "t", "e", "-", "l", "e", "a", "d">>,
      <<"l", "i", "s", "t", "-", "l", "e", "a", "d", "s">>, <<"g", "e", "t", "-", "l", "e", "a", "d">>, <<"u", "p", "d", "a", "t", "e", "-", "l", "e", "a", "d">>, <<"c", "r", "e", "a", "t", "e", "-", "v", "i", "s", "i", "t">>,
      <<"l", "i", "s", "t", "-", "v", "i", "s", "i", "t", "s">>, <<"d", "e", "l", "e", "t", "e", "-", "v", "i", "s", "i", "t">>, <<"l", "i", "s", "t", "-", "l", "o", "g", "s">>, <<"c", "r", "e", "a", "t", "e", "-", "n", "o", "t", "e">>,
      <<"g", "e", "t", "-", "n", "o", "t", "e">>, <<"l", "i", "s", "t", "-", "n", "o", "t", "e", "s">>, <<"u", "p", "d", "a", "t", "e", "-", "n", "o", "t", "e">>, <<"d", "e", "l", "e", "t", "e", "-", "n", "o", "t", "e">> }

\* lines 112-116
normalizeKey(key) ==
    IF key = <<"h">> THEN <<"h", "e", "l", "p">>
    ELSE IF key = <<"v">> THEN <<"v", "e", "r", "b", "o", "s", "e">>
    ELSE key

\* line 46: arg.replace(/^--?/, '')
stripDashes(arg) ==
    IF startsWith(arg, <<"-", "-">>) THEN sliceFrom(arg, 2)
    ELSE IF startsWith(arg, <<"-">>) THEN sliceFrom(arg, 1)
    ELSE arg

\* an option takes whatever follows it, a command name included
isBooleanIgnoringCommands(next) ==
    next.t = "undefined" \/ startsWith(next.s, <<"-">>)

\* line 45
isBoolean(next) ==
    next.t = "undefined" \/ startsWith(next.s, <<"-">>) \/ next.s \in COMMANDS

\* lines 40-50: parseOption at index i; target is the object written to
parseOption(args, i, target) ==
    LET \* args[i] for a 0-based i: undefined past the end
        argAt(args0, i0) == IF i0 >= 0 /\ i0 < Len(args0) THEN Str(args0[i0 + 1]) ELSE Undefined
    IN
    LET arg  == args[i + 1]
        next == argAt(args, i + 1)
        key  == normalizeKey(stripDashes(arg))
    IN  IF ~startsWith(arg, <<"-">>)
        THEN [matched |-> FALSE, target |-> target, i |-> i]
        ELSE [matched |-> TRUE,
              target  |-> setProperty(target, key,
                                      IF isBoolean(next) THEN Bool(TRUE) ELSE next),
              i       |-> i + (IF isBoolean(next) THEN 1 ELSE 2)]

NoScan ==
    [ pc           |-> "none",
      args         |-> <<>>,
      i            |-> 0,
      global       |-> Obj(<<>>),
      command      |-> Undefined,
      params       |-> Obj(<<>>),
      commandFound |-> FALSE,
      iterations   |-> 0 ]

\* lines 34-37: the locals before the first loop
scanStart(argv) ==
    [ NoScan EXCEPT !.pc = "global", !.args = SubSeq(argv, 3, Len(argv)) ]

\* lines 52-65: the test of the first loop and one iteration of it
scanGlobal(s) ==
    IF ~(s.i < Len(s.args)) THEN [ s EXCEPT !.pc = "params" ]
    ELSE IF s.args[s.i + 1] \in COMMANDS
    THEN [ s EXCEPT
             !.pc           = "params",
             !.command      = Str(s.args[s.i + 1]),
             !.commandFound = TRUE,
             !.i            = s.i + 1,
             !.iterations   = s.iterations + 1 ]
    ELSE IF parseOption(s.args, s.i, s.global).matched
    THEN [ s EXCEPT
             !.global     = parseOption(s.args, s.i, s.global).target,
             !.i          = parseOption(s.args, s.i, s.global).i,
             !.iterations = s.iterations + 1 ]
    ELSE [ s EXCEPT !.i = s.i + 1, !.iterations = s.iterations + 1 ]

\* lines 67-73: the test of the second loop and one iteration of it
scanParams(s) ==
    IF ~(s.i < Len(s.args)) THEN [ s EXCEPT !.pc = "finish" ]
    ELSE IF parseOption(s.args, s.i, s.params).matched
    THEN [ s EXCEPT
             !.params     = parseOption(s.args, s.i, s.params).target,
             !.i          = parseOption(s.args, s.i, s.params).i,
             !.iterations = s.iterations + 1 ]
    ELSE [ s EXCEPT
             !.pc         = "finish",
             !.params     = setProperty(s.params, <<"_">>,
                                Str(join(SubSeq(s.args, s.i + 1, Len(s.args)), <<" ">>))),
             !.iterations = s.iterations + 1 ]

\* lines 75-78
scanFinish(s) ==
    IF ~s.commandFound /\ getProperty(s.global, <<"h", "e", "l", "p">>) # Bool(TRUE)
    THEN [ s EXCEPT !.pc = "returned",
                    !.global = setProperty(s.global, <<"h", "e", "l", "p">>, Bool(TRUE)) ]
    ELSE [ s EXCEPT !.pc = "returned" ]

RECURSIVE scanRun(_)
scanRun(s) ==
    LET scanStep(s0) ==
            IF s0.pc = "global" THEN scanGlobal(s0)
            ELSE IF s0.pc = "params" THEN scanParams(s0)
            ELSE scanFinish(s0)
    IN  IF s.pc = "returned" THEN s ELSE scanRun(scanStep(s))

\* lines 33-79
parseArgs(argv) ==
    LET returned(s) == [ global |-> s.global, command |-> s.command, params |-> s.params ]
    IN  returned(scanRun(scanStart(argv)))

(***************************************************************************)
(* The command line program: the option helpers and main.                  *)
(***************************************************************************)

Found(value) == [ok |-> TRUE, value |-> value, message |-> <<>>]

Raised(message) == [ok |-> FALSE, value |-> Undefined, message |-> message]

\* lines 81-85
requiredString(params, key) ==
    IF getProperty(params, key).t = "string" /\ getProperty(params, key).s # <<>>
    THEN Found(getProperty(params, key))
    ELSE Raised(<<"M", "i", "s", "s", "i", "n", "g", " ", "r", "e", "q", "u", "i", "r", "e", "d", " ", "o", "p", "t", "i", "o", "n", " ", "-", "-">> \o key)

\* lines 87-90
optionalString(params, key) ==
    IF getProperty(params, key).t = "string" THEN getProperty(params, key) ELSE Undefined

\* lines 92-100
parseNumberParam(params, key) ==
    LET \* Number(text) for the texts of the model: blank text is 0, a run of digits
        \* its value, anything else NaN
        toNumber(text) ==
            IF jsonTrim(text) = <<>> THEN Found(Num(0))
            ELSE IF \A i \in 1..Len(jsonTrim(text)) : IsDigit(jsonTrim(text)[i])
            THEN Found(Num(digitsValue(jsonTrim(text))))
            ELSE Raised(<<>>)
    IN
    IF optionalString(params, key).t = "undefined" THEN Found(Undefined)
    ELSE IF ~toNumber(optionalString(params, key).s).ok
    THEN Raised(<<"I", "n", "v", "a", "l", "i", "d", " ", "n", "u", "m", "b", "e", "r", " ", "f", "o", "r", " ", "-", "-">> \o key \o <<":", " ">> \o optionalString(params, key).s)
    ELSE toNumber(optionalString(params, key).s)

\* lines 102-110; allowed is the list of the values
requireEnum(params, key, allowed) ==
    IF ~requiredString(params, key).ok THEN requiredString(params, key)
    ELSE IF \E i \in 1..Len(allowed) : allowed[i] = requiredString(params, key).value.s
    THEN requiredString(params, key)
    ELSE Raised(<<"I", "n", "v", "a", "l", "i", "d", " ", "v", "a", "l", "u", "e", " ", "f", "o", "r", " ", "-", "-">> \o key \o <<".", " ", "A", "l", "l", "o", "w", "e", "d", ":", " ">> \o join(allowed, <<",", " ">>))

\* lines 169-387: the switch; uuid is what randomUUID() returns and ms what
\* the clock shows
dispatch(command, p, uuid, ms) ==
    LET \* value.split(',').map((t) => t.trim()), or undefined for a value that is
        \* undefined or empty
        splitList(value) ==
            IF ~truthy(value) THEN Undefined
            ELSE Arr([i \in 1..Len(split(value.s, ",")) |-> Str(trim(split(value.s, ",")[i]))])
        \* the first error of the evaluations made in order, or the command to call
        evaluated(results, command0) ==
            IF \A i \in 1..Len(results) : results[i].ok
            THEN [ok |-> TRUE, message |-> <<>>, command |-> command0]
            ELSE [ok |-> FALSE,
                  message |-> results[CHOOSE i \in 1..Len(results) :
                                          /\ ~results[i].ok
                                          /\ \A j \in 1..(i - 1) : results[j].ok].message,
                  command |-> Command("", Failure(<<>>))]
        \* lines 202-214: the models sent with every note
        CliNoteModels ==
            Arr(<< Obj(<< <<<<"t", "y", "p", "e">>, Str(<<"l", "o", "g">>)>>,
                          <<<<"d", "a", "t", "a">>,
                            Obj(<< <<<<"i", "d">>, Str(<<"1", "7", "d", "9", "b", "d", "b", "7", "-", "a", "d", "b", "6", "-", "4", "d", "6", "c", "-", "9", "5", "d", "c", "-", "f", "f", "1", "7", "b", "5", "e", "3", "c", "7", "d", "9">>)>>,
                                   <<<<"v", "i", "s", "i", "t", "I", "d">>, Str(<<"9", "4", "f", "d", "b", "c", "b", "e", "-", "1", "7", "4", "4", "-", "4", "e", "d", "9", "-", "9", "1", "0", "c", "-", "b", "9", "b", "5", "9", "2", "6", "8", "d", "3", "e", "4">>)>>,
                                   <<<<"n", "o", "t", "e", "I", "d">>, Str(<<"$", "{", "n", "o", "t", "e", ".", "n", "o", "t", "e", "_", "i", "d", "}">>)>>,
                                   <<<<"o", "w", "n", "e", "r", "I", "d">>, Str(<<"$", "{", "n", "o", "t", "e", ".", "o", "w", "n", "e", "r", "_", "i", "d", "}">>)>>,
                                   <<<<"s", "u", "m", "m", "a", "r", "y">>, Str(<<"$", "{", "n", "o", "t", "e", ".", "s", "u", "m", "m", "a", "r", "y", "}">>)>>,
                                   <<<<"t", "y", "p", "e">>, Str(<<"$", "{", "n", "o", "t", "e", ".", "t", "y", "p", "e", "}">>)>>,
                                   <<<<"c", "r", "e", "a", "t", "e", "d", "A", "t">>, Str(<<"$", "{", "n", "o", "t", "e", ".", "c", "r", "e", "a", "t", "e", "d", "_", "a", "t", "}">>)>>,
                                   <<<<"u", "p", "d", "a", "t", "e", "d", "A", "t">>, Str(<<"$", "{", "n", "o", "t", "e", ".", "u", "p", "d", "a", "t", "e", "d", "_", "a", "t", "}">>)>> >>)>> >>) >>)
        \* lines 347-354 and 377-384: the row to delete, from the option or the
        \* positional text
        deleteTarget(params, key) ==
            IF truthy(nullish(optionalString(params, key), optionalString(params, <<"_">>)))
            THEN Found(Str(trim(nullish(optionalString(params, key),
                                        optionalString(params, <<"_">>)).s)))
            ELSE Raised(<<"M", "i", "s", "s", "i", "n", "g", " ", "-", "-">> \o key)
    IN
    IF command = <<"d", "e", "e", "p", "p", "i", "n", "g">>
    THEN evaluated(<<>>, Command("deepping", Attempt(deepping(optionalString(p, <<"e", "c", "h", "o">>)))))
    ELSE IF command = <<"c", "r", "e", "a", "t", "e", "-", "a", "c", "t", "i", "v", "i", "t", "y">>
    THEN evaluated(
             << requireEnum(p, <<"t", "y", "p", "e">>, <<<<"c", "a", "l", "l">>, <<"l", "i", "n", "e">>, <<"e", "m", "a", "i", "l">>, <<"v", "i", "s", "i", "t">>, <<"n", "o", "t", "e">>>>),
                requireEnum(p, <<"d", "i", "r", "e", "c", "t", "i", "o", "n">>, <<<<"i", "n", "b", "o", "u", "n", "d">>, <<"o", "u", "t", "b", "o", "u", "n", "d">>>>),
                requiredString(p, <<"u", "s", "e", "r", "-", "i", "d">>),
                requiredString(p, <<"s", "u", "m", "m", "a", "r", "y">>) >>,
             Command("createActivity", Attempt(createActivity(
                 Obj(<< <<<<"i", "d">>, nullish(optionalString(p, <<"i", "d">>), Str(uuid))>>,
                        <<<<"t", "y", "p", "e">>, getProperty(p, <<"t", "y", "p", "e">>)>>,
                        <<<<"d", "i", "r", "e", "c", "t", "i", "o", "n">>, getProperty(p, <<"d", "i", "r", "e", "c", "t", "i", "o", "n">>)>>,
                        <<<<"a", "t">>, nullish(optionalString(p, <<"a", "t">>), Str(toISOString(ms)))>>,
                        <<<<"u", "s", "e", "r", "I", "d">>, getProperty(p, <<"u", "s", "e", "r", "-", "i", "d">>)>>,
                        <<<<"s", "u", "m", "m", "a", "r", "y">>, getProperty(p, <<"s", "u", "m", "m", "a", "r", "y">>)>>,
                        <<<<"n", "e", "x", "t", "F", "o", "l", "l", "o", "w", "U", "p", "A", "t">>, optionalString(p, <<"n", "e", "x", "t", "-", "f", "o", "l", "l", "o", "w", "-", "u", "p", "-", "a", "t">>)>>,
                        <<<<"l", "e", "a", "d", "I", "d">>, optionalString(p, <<"l", "e", "a", "d", "-", "i", "d">>)>> >>)))))
    ELSE IF command = <<"l", "i", "s", "t", "-", "a", "c", "t", "i", "v", "i", "t", "i", "e", "s">>
    THEN evaluated(
             << parseNumberParam(p, <<"p", "a", "g", "e">>), parseNumberParam(p, <<"i", "t", "e", "m", "s", "-", "p", "e", "r", "-", "p", "a", "g", "e">>) >>,
             Command("listActivities", Attempt(listActivities(
                 PageOptions(parseNumberParam(p, <<"p", "a", "g", "e">>).value,
                             parseNumberParam(p, <<"i", "t", "e", "m", "s", "-", "p", "e", "r", "-", "p", "a", "g", "e">>).value,
                             optionalString(p, <<"u", "s", "e", "r", "-", "i", "d">>),
                             optionalString(p, <<"l", "e", "a", "d", "-", "i", "d">>), Undefined, Undefined)))))
    ELSE IF command = <<"c", "r", "e", "a", "t", "e", "-", "n", "o", "t", "e">>
    THEN evaluated(
             << requiredString(p, <<"o", "w", "n", "e", "r", "-", "i", "d">>), requiredString(p, <<"t", "y", "p", "e">>) >>,
             NoteCommand(NoteOptions(
                 getProperty(p, <<"o", "w", "n", "e", "r", "-", "i", "d">>), getProperty(p, <<"t", "y", "p", "e">>),
                 optionalString(p, <<"d", "a", "t", "a">>), optionalString(p, <<"f", "i", "l", "e">>),
                 optionalString(p, <<"r", "o", "l", "e">>), CliNoteModels)))
    ELSE IF command = <<"g", "e", "t", "-", "n", "o", "t", "e">>
    THEN evaluated(
             << requiredString(p, <<"o", "w", "n", "e", "r", "-", "i", "d">>), requiredString(p, <<"n", "o", "t", "e", "-", "i", "d">>) >>,
             Command("getNote", Attempt(getNote(getProperty(p, <<"o", "w", "n", "e", "r", "-", "i", "d">>),
                                                getProperty(p, <<"n", "o", "t", "e", "-", "i", "d">>).s))))
    ELSE IF command = <<"l", "i", "s", "t", "-", "n", "o", "t", "e", "s">>
    THEN evaluated(
             << requiredString(p, <<"o", "w", "n", "e", "r", "-", "i", "d">>),
                parseNumberParam(p, <<"p", "a", "g", "e">>), parseNumberParam(p, <<"i", "t", "e", "m", "s", "-", "p", "e", "r", "-", "p", "a", "g", "e">>) >>,
             Command("listNotes", Attempt(listNotes(
                 ListOptions(parseNumberParam(p, <<"p", "a", "g", "e">>).value,
                             parseNumberParam(p, <<"i", "t", "e", "m", "s", "-", "p", "e", "r", "-", "p", "a", "g", "e">>).value,
                             optionalString(p, <<"s", "c", "h", "e", "m", "a", "-", "n", "a", "m", "e">>),
                             optionalString(p, <<"s", "u", "m", "m", "a", "r", "y">>),
                             getProperty(p, <<"o", "w", "n", "e", "r", "-", "i", "d">>))))))
    ELSE IF command = <<"c", "r", "e", "a", "t", "e", "-", "l", "e", "a", "d">>
    THEN evaluated(
             << requiredString(p, <<"t", "e", "n", "a", "n", "t", "-", "i", "d">>), requiredString(p, <<"o", "w", "n", "e", "r", "-", "u", "s", "e", "r", "-", "i", "d">>),
                requireEnum(p, <<"p", "i", "p", "e", "l", "i", "n", "e">>, <<<<"b", "u", "y">>, <<"r", "e", "n", "t">>, <<"s", "e", "l", "l">>, <<"l", "a", "n", "d", "l", "o", "r", "d">>>>),
                requiredString(p, <<"n", "a", "m", "e">>) >>,
             Command("createLead", createLead(
                 LeadFields(optionalString(p, <<"i", "d">>), getProperty(p, <<"t", "e", "n", "a", "n", "t", "-", "i", "d">>),
                            getProperty(p, <<"o", "w", "n", "e", "r", "-", "u", "s", "e", "r", "-", "i", "d">>), getProperty(p, <<"p", "i", "p", "e", "l", "i", "n", "e">>),
                            optionalString(p, <<"s", "t", "a", "g", "e">>), optionalString(p, <<"s", "t", "a", "t", "u", "s">>),
                            getProperty(p, <<"n", "a", "m", "e">>), optionalString(p, <<"e", "m", "a", "i", "l">>),
                            optionalString(p, <<"p", "h", "o", "n", "e">>),
                            optionalString(p, <<"s", "o", "u", "r", "c", "e", "-", "c", "h", "a", "n", "n", "e", "l">>),
                            optionalString(p, <<"s", "o", "u", "r", "c", "e", "-", "n", "a", "m", "e">>),
                            splitList(optionalString(p, <<"t", "a", "g", "s">>)),
                            optionalString(p, <<"f", "i", "l", "e">>)),
                 uuid, ms)))
    ELSE IF command = <<"l", "i", "s", "t", "-", "l", "e", "a", "d", "s">>
    THEN evaluated(
             << parseNumberParam(p, <<"p", "a", "g", "e">>), parseNumberParam(p, <<"i", "t", "e", "m", "s", "-", "p", "e", "r", "-", "p", "a", "g", "e">>) >>,
             Command("listLeads", Attempt(listLeads(
                 LeadOptions(parseNumberParam(p, <<"p", "a", "g", "e">>).value,
                             parseNumberParam(p, <<"i", "t", "e", "m", "s", "-", "p", "e", "r", "-", "p", "a", "g", "e">>).value,
                             optionalString(p, <<"o", "r", "d", "e", "r", "-", "b", "y">>),
                             optionalString(p, <<"l", "e", "a", "d", "-", "i", "d">>))))))
    ELSE IF command = <<"g", "e", "t", "-", "l", "e", "a", "d">>
    THEN evaluated(<< requiredString(p, <<"l", "e", "a", "d", "-", "i", "d">>) >>,
                   Command("getLead", Attempt(getLead(getProperty(p, <<"l", "e", "a", "d", "-", "i", "d">>).s))))
    ELSE IF command = <<"u", "p", "d", "a", "t", "e", "-", "l", "e", "a", "d">>
    THEN evaluated(<< requiredString(p, <<"l", "e", "a", "d", "-", "i", "d">>), requiredString(p, <<"f", "i", "l", "e">>) >>,
                   Command("updateLead", updateLead(getProperty(p, <<"l", "e", "a", "d", "-", "i", "d">>).s,
                                                    getProperty(p, <<"f", "i", "l", "e">>).s)))
    ELSE IF command = <<"c", "r", "e", "a", "t", "e", "-", "v", "i", "s", "i", "t">>
    THEN evaluated(
             << requiredString(p, <<"l", "e", "a", "d", "-", "i", "d">>), requiredString(p, <<"u", "s", "e", "r", "-", "i", "d">>),
                requiredString(p, <<"p", "r", "o", "p", "e", "r", "t", "y", "-", "i", "d">>) >>,
             Command("createVisit", createVisit(
                 VisitFields(optionalString(p, <<"i", "d">>), getProperty(p, <<"l", "e", "a", "d", "-", "i", "d">>),
                             getProperty(p, <<"u", "s", "e", "r", "-", "i", "d">>), getProperty(p, <<"p", "r", "o", "p", "e", "r", "t", "y", "-", "i", "d">>),
                             optionalString(p, <<"s", "c", "h", "e", "d", "u", "l", "e", "d", "-", "s", "t", "a", "r", "t", "-", "a", "t">>),
                             optionalString(p, <<"s", "c", "h", "e", "d", "u", "l", "e", "d", "-", "e", "n", "d", "-", "a", "t">>),
                             optionalString(p, <<"s", "t", "a", "t", "u", "s">>), optionalString(p, <<"f", "e", "e", "d", "b", "a", "c", "k">>),
                             splitList(optionalString(p, <<"a", "t", "t", "e", "n", "d", "e", "e", "s">>)),
                             optionalString(p, <<"n", "e", "x", "t", "-", "f", "o", "l", "l", "o", "w", "-", "u", "p", "-", "a", "t">>),
                             optionalString(p, <<"f", "i", "l", "e">>)),
                 uuid, ms)))
    ELSE IF command = <<"l", "i", "s", "t", "-", "v", "i", "s", "i", "t", "s">>
    THEN evaluated(
             << parseNumberParam(p, <<"p", "a", "g", "e">>), parseNumberParam(p, <<"i", "t", "e", "m", "s", "-", "p", "e", "r", "-", "p", "a", "g", "e">>) >>,
             Command("listVisits", Attempt(listVisits(
                 PageOptions(parseNumberParam(p, <<"p", "a", "g", "e">>).value,
                             parseNumberParam(p, <<"i", "t", "e", "m", "s", "-", "p", "e", "r", "-", "p", "a", "g", "e">>).value,
                             optionalString(p, <<"l", "e", "a", "d", "-", "i", "d">>), optionalString(p, <<"u", "s", "e", "r", "-", "i", "d">>),
                             optionalString(p, <<"p", "r", "o", "p", "e", "r", "t", "y", "-", "i", "d">>), Undefined)))))
    ELSE IF command = <<"d", "e", "l", "e", "t", "e", "-", "v", "i", "s", "i", "t">>
    THEN evaluated(<< deleteTarget(p, <<"v", "i", "s", "i", "t", "-", "r", "o", "w", "-", "i", "d">>) >>,
                   Command("deleteVisit",
                           Attempt(deleteVisit(deleteTarget(p, <<"v", "i", "s", "i", "t", "-", "r", "o", "w", "-", "i", "d">>).value.s))))
    ELSE IF command = <<"l", "i", "s", "t", "-", "l", "o", "g", "s">>
    THEN evaluated(
             << parseNumberParam(p, <<"p", "a", "g", "e">>), parseNumberParam(p, <<"i", "t", "e", "m", "s", "-", "p", "e", "r", "-", "p", "a", "g", "e">>) >>,
             Command("listLogs", Attempt(listLogs(
                 PageOptions(parseNumberParam(p, <<"p", "a", "g", "e">>).value,
                             parseNumberParam(p, <<"i", "t", "e", "m", "s", "-", "p", "e", "r", "-", "p", "a", "g", "e">>).value,
                             optionalString(p, <<"l", "o", "g", "-", "i", "d">>), optionalString(p, <<"l", "e", "a", "d", "-", "i", "d">>),
                             optionalString(p, <<"v", "i", "s", "i", "t", "-", "i", "d">>),
                             optionalString(p, <<"o", "w", "n", "e", "r", "-", "i", "d">>))))))
    ELSE IF command = <<"u", "p", "d", "a", "t", "e", "-", "n", "o", "t", "e">>
    THEN evaluated(
             << requiredString(p, <<"o", "w", "n", "e", "r", "-", "i", "d">>), requiredString(p, <<"n", "o", "t", "e", "-", "i", "d">>),
                requiredString(p, <<"s", "u", "m", "m", "a", "r", "y">>) >>,
             Command("updateNote", Attempt(updateNote(getProperty(p, <<"o", "w", "n", "e", "r", "-", "i", "d">>),
                                                      getProperty(p, <<"n", "o", "t", "e", "-", "i", "d">>).s,
                                                      getProperty(p, <<"s", "u", "m", "m", "a", "r", "y">>)))))
    ELSE evaluated(<< deleteTarget(p, <<"n", "o", "t", "e", "-", "i", "d">>) >>,
                   Command("deleteNote",
                           Attempt(deleteNote(deleteTarget(p, <<"n", "o", "t", "e", "-", "i", "d">>).value.s))))

NoMain ==
    [ pc          |-> "none",
      argv        |-> <<>>,
      global      |-> Obj(<<>>),
      command     |-> Undefined,
      params      |-> Obj(<<>>),
      usage       |-> 0,
      credentials |-> FALSE,
      constructed |-> FALSE,
      stdout      |-> 0,
      stderr      |-> NoError,
      exitCode    |-> 0,
      rejected    |-> FALSE ]

\* a main whose errors leave it: the promise of main rejects
uncaught(m, error) == [ m EXCEPT !.pc = "returned", !.rejected = TRUE ]

\* lines 388-391: the catch block
caught(m, error) == [ m EXCEPT !.pc = "returned", !.stderr = error, !.exitCode = 1 ]

(***************************************************************************)
(* State.                                                                  *)
(*   signer  the AuthSigner: accessKeyId, accessSecret (readonly fields)   *)
(*   client  the ApiClient: baseUrl, verbose (readonly fields)             *)
(*   now     what Date.now() returns                                       *)
(*   calls   one record per pipeline slot: the position of a request()     *)
(*           invocation and its local variables                            *)
(*   sig     a caller that invokes generateAuthorizationHeader directly    *)
(*   codec   a caller of the exported toBase64Url and base64UrlToBuffer    *)
(*   handler one invocation of a CommandHandler method                     *)
(*   main    the invocation of main() of the command line program          *)
(*   scan    an invocation of parseArgs: its position and locals           *)
(***************************************************************************)
VARIABLES signer, client, now, calls, sig, codec, handler, main, scan

vars == <<signer, client, now, calls, sig, codec, handler, main, scan>>

NoAuth ==
    [ok |-> FALSE, error |-> "", timestamp |-> 0, nonce |-> <<>>,
     signingString |-> <<>>, header |-> <<>>]

NoResponse == Response(0, FALSE, <<>>, <<>>, TRUE)

NoResult == [status |-> 0, body |-> <<>>]

\* the raw body bytes that stay reachable from what request() hands to its
\* caller: none, since line 98 passes on the status, the decoded text and the
\* headers, and a throw passes on the error alone
NoRaw == [held |-> FALSE, bytes |-> <<>>]

IdleCall ==
    LET NoUrl == [origin |-> <<>>, pathname |-> <<>>, hasQuery |-> FALSE, query |-> <<>>]
        NoFetch ==
            [called |-> FALSE, url |-> <<>>, method |-> <<>>, authorization |-> <<>>,
             contentType |-> <<>>, acceptEncoding |-> <<>>, hasBody |-> FALSE, body |-> <<>>]
        NoInput == RequestOptions(<<>>, <<>>, NoParams, Undefined)
    IN
    [ pc                |-> "idle",
      input             |-> NoInput,
      url               |-> NoUrl,
      sortedQueryString |-> <<>>,
      urlWithoutQuery   |-> <<>>,
      bodyString        |-> <<>>,
      clock             |-> 0,
      random            |-> <<>>,
      auth              |-> NoAuth,
      fetch             |-> NoFetch,
      response          |-> NoResponse,
      result            |-> NoResult,
      rejection         |-> "",
      error             |-> "",
      raw               |-> NoRaw,
      console           |-> 0 ]

\* lines 54-58: the URL object after the query string was applied
requestUrl(path, baseUrl, sortedQueryString) ==
    LET \* new URL(path, baseUrl) for a base that is a bare origin and a reference
        \* that is empty or an absolute path with an optional '?query' (no '#', no
        \* dot segments, no character the URL parser would escape)
        newURL(path0, baseUrl0) ==
            LET q       == indexOf(path0, "?")
                rawPath == IF q = 0 THEN path0 ELSE SubSeq(path0, 1, q - 1)
            IN  [ origin   |-> baseUrl0,
                  pathname |-> IF rawPath = <<>> THEN <<"/">> ELSE rawPath,
                  hasQuery |-> q # 0,
                  query    |-> IF q = 0 THEN <<>> ELSE sliceFrom(path0, q) ]
        \* the setter of URL.search, for a value that needs no escaping
        setSearch(url, value) ==
            IF value = <<>> THEN [url EXCEPT !.hasQuery = FALSE, !.query = <<>>]
            ELSE [url EXCEPT !.hasQuery = TRUE,
                             !.query = IF value[1] = "?" THEN Tail(value) ELSE value]
    IN
    IF sortedQueryString # <<>>
    THEN setSearch(newURL(path, baseUrl), sortedQueryString)
    ELSE newURL(path, baseUrl)

\* line 60
urlWithoutQueryOf(url) == url.origin \o url.pathname

\* lines 80-88: the arguments of fetchImpl
fetchArguments(url, method, authHeader, body) ==
    [ called         |-> TRUE,
      url            |-> urlToString(url),
      method         |-> method,
      authorization  |-> authHeader,
      contentType    |-> <<"a", "p", "p", "l", "i", "c", "a", "t", "i", "o", "n", "/", "j", "s", "o", "n", ";", " ", "c", "h", "a", "r", "s", "e", "t", "=", "U", "T", "F", "-", "8">>,
      acceptEncoding |-> <<"g", "z", "i", "p">>,
      hasBody        |-> body # <<>>,
      body           |-> body ]

\* lines 70-78: the number of console.log calls before the send
requestLogLines(verbose, urlWithoutQuery, body, sortedQueryString) ==
    IF ~verbose THEN 0
    ELSE 4 + (IF urlWithoutQuery # <<>> THEN 1 ELSE 0)
           + (IF body # <<>> THEN 1 ELSE 0)
           + (IF sortedQueryString # <<>> THEN 1 ELSE 0)

\* lines 92-96: the number of console.log calls after the decode
responseLogLines(verbose) == IF verbose THEN 3 ELSE 0

\* line 98: the response object handed to the caller
apiResponse(status, body) == [status |-> status, body |-> body]

\* a timestamp captured once, when the signer was created
dateNowAtConstruction == ClockStart

\* line 25: what Date.now() returns
dateNow == now

(***************************************************************************)
(* Actions of the client.                                                  *)
(***************************************************************************)

\* request(), lines 53-68: canonicalize, then generateAuthorizationHeader
\* runs to completion; the await of line 63 suspends the call
Request(c, input, random) ==
    /\ calls[c].pc = "idle"
    /\ LET sortedQueryString == buildQueryString(input.queryParams)
           url               == requestUrl(input.path, client.baseUrl, sortedQueryString)
           urlWithoutQuery   == urlWithoutQueryOf(url)
           body              == bodyString(input.body)
           auth              == generateAuthorizationHeader(
                                    signer.accessKeyId, signer.accessSecret,
                                    input.method, urlWithoutQuery,
                                    sortedQueryString, body, dateNow, random)
       IN  calls' = [calls EXCEPT ![c] =
                [ IdleCall EXCEPT
                    !.pc                = IF auth.ok THEN "signed" ELSE "failed",
                    !.input             = input,
                    !.url               = url,
                    !.sortedQueryString = sortedQueryString,
                    !.urlWithoutQuery   = urlWithoutQuery,
                    !.bodyString        = body,
                    !.clock             = now,
                    !.random            = random,
                    !.auth              = auth,
                    !.error             = auth.error ]]
    /\ UNCHANGED <<signer, client, now, sig, codec, handler, main, scan>>

\* a diagnostic mode that prints the body and then sends the request without it
afterSendBodyLogged(call, verbose) ==
    [ call EXCEPT
        !.pc      = "sent",
        !.fetch   = fetchArguments(call.url, call.input.method, call.auth.header,
                                   IF verbose THEN <<>> ELSE call.bodyString),
        !.console = requestLogLines(verbose, call.urlWithoutQuery,
                                    call.bodyString, call.sortedQueryString) ]

\* lines 70-88: the locals of request() once fetchImpl has been called
afterSend(call, verbose) ==
    [ call EXCEPT
        !.pc      = "sent",
        !.fetch   = fetchArguments(call.url, call.input.method, call.auth.header,
                                   call.bodyString),
        !.console = requestLogLines(verbose, call.urlWithoutQuery,
                                    call.bodyString, call.sortedQueryString) ]

\* a client that keeps the last header in a field shared by all requests
SendSharedHeader(c) ==
    /\ calls[c].pc = "signed"
    /\ calls' = [calls EXCEPT ![c] =
            [ @ EXCEPT
                !.pc    = "sent",
                !.fetch = fetchArguments(
                              calls[c].url, calls[c].input.method,
                              calls[CHOOSE d \in DOMAIN calls :
                                        /\ calls[d].pc = "signed"
                                        /\ \A e \in DOMAIN calls :
                                               calls[e].pc = "signed" => d >= e
                                    ].auth.header,
                              calls[c].bodyString) ]]
    /\ UNCHANGED <<signer, client, now, sig, codec, handler, main, scan>>

\* a client that calls fetchImpl without waiting for the header
SendUnsigned(c) ==
    /\ calls[c].pc \in {"idle", "signed"}
    /\ calls' = [calls EXCEPT ![c] =
            [ @ EXCEPT
                !.pc    = "sent",
                !.fetch = fetchArguments(calls[c].url, calls[c].input.method,
                                         calls[c].auth.header,
                                         calls[c].bodyString) ]]
    /\ UNCHANGED <<signer, client, now, sig, codec, handler, main, scan>>

\* request(), lines 70-88: the diagnostic output and the call of fetchImpl
Send(c) ==
    /\ calls[c].pc = "signed"
    /\ calls' = [calls EXCEPT ![c] = afterSend(calls[c], client.verbose)]
    /\ UNCHANGED <<signer, client, now, sig, codec, handler, main, scan>>

\* the promise of fetchImpl resolves; from here on request() uses only the
\* response (lines 90-98)
FetchResolve(c, response) ==
    /\ calls[c].pc = "sent"
    /\ calls' = [calls EXCEPT ![c] =
            [ IdleCall EXCEPT
                !.pc       = "responded",
                !.response = response,
                !.console  = calls[c].console ]]
    /\ UNCHANGED <<signer, client, now, sig, codec, handler, main, scan>>

\* a transport that sends the request again after a network failure
FetchRejectRetry(c, reason) ==
    /\ calls[c].pc = "sent"
    /\ calls' = [calls EXCEPT ![c] = [ @ EXCEPT !.pc = "signed", !.rejection = reason ]]
    /\ UNCHANGED <<signer, client, now, sig, codec, handler, main, scan>>

\* the promise of fetchImpl rejects with reason: the await of line 80 throws
\* it, and nothing in request() catches it
FetchReject(c, reason) ==
    /\ calls[c].pc = "sent"
    /\ calls' = [calls EXCEPT ![c] =
            [ IdleCall EXCEPT
                !.pc        = "failed",
                !.fetch     = calls[c].fetch,
                !.rejection = reason,
                !.error     = reason,
                !.console   = calls[c].console ]]
    /\ UNCHANGED <<signer, client, now, sig, codec, handler, main, scan>>

HttpError == "HttpError"

\* a transport that throws on a status outside 200-299
DecodeRaising(c) ==
    /\ calls[c].pc = "responded"
    /\ LET decoded == decodeResponse(calls[c].response)
       IN  calls' = [calls EXCEPT ![c] =
                IF ~isSuccess(calls[c].response.status)
                THEN [ @ EXCEPT !.pc = "failed", !.error = HttpError ]
                ELSE IF decoded.ok
                THEN [ @ EXCEPT
                         !.pc      = "done",
                         !.result  = apiResponse(calls[c].response.status, decoded.value),
                         !.raw     = NoRaw,
                         !.console = @ + responseLogLines(client.verbose) ]
                ELSE [ @ EXCEPT !.pc = "failed", !.error = decoded.error,
                                !.raw = NoRaw ]]
    /\ UNCHANGED <<signer, client, now, sig, codec, handler, main, scan>>

\* lines 90-98: the outcome of request() given what decodeResponse did
afterDecode(call, verbose, decoded) ==
    IF decoded.ok
    THEN [ call EXCEPT
             !.pc      = "done",
             !.result  = apiResponse(call.response.status, decoded.value),
             !.raw     = NoRaw,
             !.console = call.console + responseLogLines(verbose) ]
    ELSE [ call EXCEPT !.pc = "failed", !.error = decoded.error, !.raw = NoRaw ]

\* request(), lines 90-98: decode, log, return the ApiResponse
Decode(c) ==
    /\ calls[c].pc = "responded"
    /\ calls' = [calls EXCEPT ![c] =
            afterDecode(calls[c], client.verbose, decodeResponse(calls[c].response))]
    /\ UNCHANGED <<signer, client, now, sig, codec, handler, main, scan>>

\* the caller has consumed the settled promise; the slot is free again
Return(c) ==
    /\ calls[c].pc \in {"done", "failed"}
    /\ calls' = [calls EXCEPT ![c] = IdleCall]
    /\ UNCHANGED <<signer, client, now, sig, codec, handler, main, scan>>

\* time passes
Tick ==
    /\ now < MaxClock
    /\ now' = now + 1
    /\ UNCHANGED <<signer, client, calls, sig, codec, handler, main, scan>>

NoSig ==
    [pc |-> "none",
     input |-> [method |-> <<>>, url |-> <<>>, queryString |-> <<>>, body |-> <<>>],
     clock |-> 0, random |-> <<>>, auth |-> NoAuth]

NoCodec == [pc |-> "none", buffer |-> <<>>, text |-> <<>>, back |-> <<>>]

Init ==
    /\ signer \in [accessKeyId : {AccessKeyId}, accessSecret : Secrets]
    /\ client \in [baseUrl : {BaseUrl}, verbose : BOOLEAN]
    /\ now = ClockStart
    /\ calls = [c \in Calls |-> IdleCall]
    /\ sig = NoSig
    /\ codec = NoCodec
    /\ handler = NoCommand
    /\ main = NoMain
    /\ scan = NoScan

\* calls made through the command layer
CommandRequests ==
    { deepping(Undefined),
      deepping(Str(<<"a", " ", "b">>)),
      getNote(Str(<<"u", "1">>), <<"n", "1">>),
      listNotes(ListOptions(Undefined, Undefined, Undefined, Undefined, Undefined)),
      listNotes(ListOptions(Num(2), Num(10), Undefined, Str(<<"x", "&", "y">>), Str(<<"u", "1">>))),
      listLeads(LeadOptions(Num(1), Undefined, Str(<<"n", "a", "m", "e">>), Str(<<"7">>))),
      getLead(<<"7">>),
      updateNote(Str(<<"u", "1">>), <<"n", "1">>, Str(<<"s", "a", "y", " ", "\"", "h", "i", "\"">>)),
      deleteNote(<<"n", "1">>) }

\* calls made on ApiClient.request directly
DirectRequests ==
    { RequestOptions(<<"g", "e", "t">>, <<"/", "v", "1", "/", "x", "/">>,
                     Params(<< <<<<"b">>, Bool(TRUE)>>, <<<<"a">>, Num(0)>>,
                               <<<<"B">>, Str(<<>>)>> >>), Null),
      RequestOptions(<<"g", "e", "t">>, <<"/", "v", "1", "/", "x", "?">>, Params(<<>>), Undefined),
      RequestOptions(<<"G", "E", "T">>, <<"/", "v", "1", "/", "x", "?", "o", "l", "d", "=", "1">>,
                     Params(<< <<<<"n", "e", "w">>, Num(2)>> >>), Undefined),
      RequestOptions(<<"p", "o", "s", "t">>, <<>>, NoParams, Str(<<>>)),
      RequestOptions(<<"P", "O", "S", "T">>, <<"/", "v", "1", "/", "x">>, NoParams, Obj(<<>>)),
      RequestOptions(<<"P", "O", "S", "T">>, <<"/", "v", "1", "/", "x">>, NoParams, Bool(FALSE)),
      RequestOptions(<<"P", "U", "T">>, <<"/", "v", "1", "/", "x">>, NoParams, Num(0)) }

RequestInputs == CommandRequests \cup DirectRequests

\* replies of the server
Responses ==
    { Response(200, TRUE, <<"a", "p", "p", "l", "i", "c", "a", "t", "i", "o", "n", "/", "j", "s", "o", "n">>, JsonBytes, TRUE),
      Response(200, FALSE, <<>>, JsonBytes, TRUE),
      Response(200, TRUE, <<"t", "e", "x", "t", "/", "p", "l", "a", "i", "n", ";", " ", "c", "h", "a", "r", "s", "e", "t", "=", "i", "s", "o", "-", "8", "8", "5", "9", "-", "1">>, CafeBytes, TRUE),
      Response(200, TRUE, <<"t", "e", "x", "t", "/", "p", "l", "a", "i", "n", ";", " ", "C", "h", "a", "r", "s", "e", "t", "=", "U", "T", "F", "-", "8">>, CafeBytes, TRUE),
      Response(200, TRUE, <<"t", "e", "x", "t", "/", "p", "l", "a", "i", "n", ";", " ", "c", "h", "a", "r", "s", "e", "t", "=", "k", "l", "i", "n", "g", "o", "n">>, TextBytes, TRUE),
      Response(404, TRUE, <<"t", "e", "x", "t", "/", "p", "l", "a", "i", "n", ";", " ", "c", "h", "a", "r", "s", "e", "t", "=", "k", "l", "i", "n", "g", "o", "n">>, TextBytes, TRUE),
      Response(200, TRUE, <<"t", "e", "x", "t", "/", "p", "l", "a", "i", "n", ";", " ", "c", "h", "a", "r", "s", "e", "t", "=", "\"", "u", "t", "f", "-", "8", "\"">>, CafeBytes, TRUE),
      Response(200, TRUE, <<"t", "e", "x", "t", "/", "h", "t", "m", "l", ";", "C", "H", "A", "R", "S", "E", "T", "=", " ", "l", "a", "t", "i", "n", "1", " ", ";", "q", "=", "1">>, CafeBytes, TRUE),
      Response(200, TRUE, <<"t", "e", "x", "t", "/", "p", "l", "a", "i", "n", ";", " ", "c", "h", "a", "r", "s", "e", "t", "=", "u", "t", "f", "8">>, JsonBytes, FALSE),
      Response(199, TRUE, <<"a", "p", "p", "l", "i", "c", "a", "t", "i", "o", "n", "/", "j", "s", "o", "n">>, TextBytes, TRUE),
      Response(204, FALSE, <<>>, <<>>, TRUE),
      Response(299, TRUE, <<"a", "p", "p", "l", "i", "c", "a", "t", "i", "o", "n", "/", "j", "s", "o", "n">>, JsonBytes, TRUE),
      Response(300, TRUE, <<"a", "p", "p", "l", "i", "c", "a", "t", "i", "o", "n", "/", "j", "s", "o", "n">>, TextBytes, TRUE),
      Response(404, TRUE, <<"a", "p", "p", "l", "i", "c", "a", "t", "i", "o", "n", "/", "j", "s", "o", "n">>, TextBytes, TRUE),
      Response(500, FALSE, <<>>, TextBytes, TRUE),
      Response(200, TRUE, <<"a", "p", "p", "l", "i", "c", "a", "t", "i", "o", "n", "/", "j", "s", "o", "n">>, JsonBytes, FALSE),
      Response(500, TRUE, <<"a", "p", "p", "l", "i", "c", "a", "t", "i", "o", "n", "/", "j", "s", "o", "n">>, TextBytes, FALSE) }

Next ==
    \/ \E c \in Calls, input \in RequestInputs, random \in RandomBytes :
            Request(c, input, random)
    \/ \E c \in Calls : Send(c)
    \/ \E c \in Calls, response \in Responses : FetchResolve(c, response)
    \/ \E c \in Calls, reason \in FetchErrors : FetchReject(c, reason)
    \/ \E c \in Calls : Decode(c)
    \/ \E c \in Calls : Return(c)
    \/ Tick

Spec == Init /\ [][Next]_vars

(***************************************************************************)
(* A caller of the signer alone: generateAuthorizationHeader is invoked    *)
(* once with arbitrary arguments.                                          *)
(***************************************************************************)

MaxUrlLen == 3
MaxRun    == 2

SeqsUpTo(S, n) == UNION {[1..k -> S] : k \in 0..n}

SignerMethods == { <<"g", "e", "t">>, <<"G", "e", "T">>, <<"P", "O", "S", "T">> }

\* generateAuthorizationHeader(input), lines 19-37, runs to completion
SignerCall(random) ==
    /\ sig.pc = "ready"
    /\ LET auth == generateAuthorizationHeader(
                        signer.accessKeyId, signer.accessSecret,
                        sig.input.method, sig.input.url, sig.input.queryString,
                        sig.input.body, dateNow, random)
       IN  sig' = [sig EXCEPT !.pc     = IF auth.ok THEN "returned" ELSE "threw",
                              !.clock  = now,
                              !.random = random,
                              !.auth   = auth]
    /\ UNCHANGED <<signer, client, now, calls, codec, handler, main, scan>>

InitSigner ==
    LET SignerUrls == SeqsUpTo({"h", "/", "?"}, MaxUrlLen)
        SignerQueries == { <<>>, <<"a", "=", "1", "&", "b", "=", "2">>, <<"a", NL>> }
        SignerBodies == { <<>>, <<"{", "}">> }
        SignerInputs ==
            [method : SignerMethods, url : SignerUrls, queryString : SignerQueries,
             body : SignerBodies]
    IN
    /\ signer \in [accessKeyId : {AccessKeyId}, accessSecret : Secrets]
    /\ client = [baseUrl |-> BaseUrl, verbose |-> FALSE]
    /\ now \in ClockStart..MaxClock
    /\ calls = [c \in Calls |-> IdleCall]
    /\ sig \in [pc : {"ready"}, input : SignerInputs, clock : {0},
                random : {<<>>}, auth : {NoAuth}]
    /\ codec = NoCodec
    /\ handler = NoCommand
    /\ main = NoMain
    /\ scan = NoScan

NextSigner == \E random \in RandomBytes : SignerCall(random)

SpecSigner == InitSigner /\ [][NextSigner]_vars

(***************************************************************************)
(* A caller of the codec alone: a buffer is encoded with toBase64Url and   *)
(* the text is decoded with base64UrlToBuffer.                             *)
(***************************************************************************)

MaxBufferLen == 4

\* toBase64Url(buffer), lines 91-97
EncodeBuffer ==
    /\ codec.pc = "ready"
    /\ codec' = [codec EXCEPT !.pc = "encoded", !.text = toBase64Url(codec.buffer)]
    /\ UNCHANGED <<signer, client, now, calls, sig, handler, main, scan>>

\* base64UrlToBuffer(text), lines 85-89
DecodeText ==
    /\ codec.pc = "encoded"
    /\ codec' = [codec EXCEPT !.pc = "decoded", !.back = base64UrlToBuffer(codec.text)]
    /\ UNCHANGED <<signer, client, now, calls, sig, handler, main, scan>>

InitCodec ==
    LET \* byte values whose base64 digits include '+' and '/'
        ByteSamples == {0, 190, 239, 251, 255}
        \* short buffers, the nonce buffers and a signature
        CodecBuffers ==
            SeqsUpTo(ByteSamples, MaxBufferLen)
                \cup RandomBytes
                \cup { ed25519Sign(bufferFromString(<<"G", "E", "T">>),
                                   base64UrlToBuffer(sliceFrom(GoodSecret, 3))) }
    IN
    /\ signer = [accessKeyId |-> AccessKeyId, accessSecret |-> GoodSecret]
    /\ client = [baseUrl |-> BaseUrl, verbose |-> FALSE]
    /\ now = ClockStart
    /\ calls = [c \in Calls |-> IdleCall]
    /\ sig = NoSig
    /\ codec \in [pc : {"ready"}, buffer : CodecBuffers, text : {<<>>}, back : {<<>>}]
    /\ handler = NoCommand
    /\ main = NoMain
    /\ scan = NoScan

NextCodec == EncodeBuffer \/ DecodeText

SpecCodec == InitCodec /\ [][NextCodec]_vars

(***************************************************************************)
(* Concurrent callers: several request() invocations on one ApiClient are  *)
(* in flight at once and interleave at their awaits.                       *)
(***************************************************************************)

Slots == {1, 2}

InitConcurrent ==
    /\ signer = [accessKeyId |-> AccessKeyId, accessSecret |-> GoodSecret]
    /\ client = [baseUrl |-> BaseUrl, verbose |-> TRUE]
    /\ now = ClockStart
    /\ calls = [c \in Slots |-> IdleCall]
    /\ sig = NoSig
    /\ codec = NoCodec
    /\ handler = NoCommand
    /\ main = NoMain
    /\ scan = NoScan

ConcurrentRequests ==
    { getNote(Str(<<"u", "1">>), <<"n", "1">>),
      updateNote(Str(<<"u", "1">>), <<"n", "1">>, Str(<<"s", "a", "y", " ", "\"", "h", "i", "\"">>)),
      deleteNote(<<"n", "1">>) }

ConcurrentResponses ==
    { Response(200, TRUE, <<"a", "p", "p", "l", "i", "c", "a", "t", "i", "o", "n", "/", "j", "s", "o", "n">>, JsonBytes, TRUE),
      Response(404, TRUE, <<"t", "e", "x", "t", "/", "p", "l", "a", "i", "n", ";", " ", "c", "h", "a", "r", "s", "e", "t", "=", "i", "s", "o", "-", "8", "8", "5", "9", "-", "1">>, CafeBytes, TRUE),
      Response(200, TRUE, <<"t", "e", "x", "t", "/", "p", "l", "a", "i", "n", ";", " ", "c", "h", "a", "r", "s", "e", "t", "=", "k", "l", "i", "n", "g", "o", "n">>, TextBytes, TRUE) }

NextConcurrent ==
    \/ \E c \in Slots, input \in ConcurrentRequests, random \in RandomBytes :
            Request(c, input, random)
    \/ \E c \in Slots : Send(c)
    \/ \E c \in Slots, response \in ConcurrentResponses : FetchResolve(c, response)
    \/ \E c \in Slots : FetchReject(c, FetchError)
    \/ \E c \in Slots : Decode(c)
    \/ \E c \in Slots : Return(c)
    \/ Tick

SpecConcurrent == InitConcurrent /\ [][NextConcurrent]_vars

(***************************************************************************)
(* A caller of the CommandHandler: one command at a time is invoked, makes *)
(* its request through the client and settles when the request has.        *)
(***************************************************************************)

\* the method is called and runs up to its client call
Invoke(command) ==
    /\ handler.pc \in {"none", "returned", "thrown"}
    /\ \A c \in Calls : calls[c].pc = "idle"
    /\ handler' = invoked(command)
    /\ UNCHANGED <<signer, client, now, calls, sig, codec, main, scan>>

\* the client method called by the command: request() starts
ClientCall(c, random) ==
    /\ handler.pc = "calling"
    /\ Request(c, handler.request, random)

\* the awaited request has settled: a rejection leaves the command as it is,
\* a response goes through assertSuccess and json()
Settle(c) ==
    LET \* line 111: deepping prints the status before it looks at it
        statusLogLines(name) == IF name = "deepping" THEN 1 ELSE 0
        \* the command after the promise of the client call has settled; call is the
        \* settled request
        settled(h, call) ==
            IF call.pc = "failed"
            THEN [ h EXCEPT !.pc = "thrown", !.error = Thrown("request", call.error, <<>>) ]
            ELSE LET response == call.result
                     check    == assertSuccess(response, Context[h.name])
                 IN  IF check.threw
                     THEN [ h EXCEPT
                              !.pc       = "thrown",
                              !.response = [present |-> TRUE, status |-> response.status,
                                            body |-> response.body],
                              !.error    = Thrown("assertSuccess", "Error", check.message),
                              !.console  = h.console + statusLogLines(h.name) ]
                     ELSE [ h EXCEPT
                              !.pc       = "returned",
                              !.response = [present |-> TRUE, status |-> response.status,
                                            body |-> response.body],
                              !.value    = json(response),
                              !.console  = h.console + statusLogLines(h.name) ]
    IN
    /\ handler.pc = "calling"
    /\ calls[c].pc \in {"done", "failed"}
    /\ handler' = settled(handler, calls[c])
    /\ calls' = [calls EXCEPT ![c] = IdleCall]
    /\ UNCHANGED <<signer, client, now, sig, codec, main, scan>>

InitCommand ==
    /\ signer \in [accessKeyId : {AccessKeyId}, accessSecret : {GoodSecret, JunkSecret}]
    /\ client = [baseUrl |-> BaseUrl, verbose |-> FALSE]
    /\ now = ClockStart
    /\ calls = [c \in Calls |-> IdleCall]
    /\ sig = NoSig
    /\ codec = NoCodec
    /\ handler = NoCommand
    /\ main = NoMain
    /\ scan = NoScan

NoteModels == Arr(<< Obj(<< <<<<"t", "y", "p", "e">>, Str(<<"l", "o", "g">>)>> >>) >>)

NoLead ==
    LeadFields(Undefined, Str(<<"t", "1">>), Str(<<"u", "1">>), Str(<<"b", "u", "y">>), Undefined, Undefined,
               Str(<<"A", "n", "n">>), Undefined, Undefined, Undefined, Undefined, Undefined,
               Undefined)

NoVisit ==
    VisitFields(Undefined, Str(<<"L", "1">>), Str(<<"u", "1">>), Str(<<"p", "1">>), Undefined, Undefined,
                Undefined, Undefined, Undefined, Undefined, Undefined)

\* commands a caller invokes when the clock shows ms
Commands(ms) ==
    { Command("deepping", Attempt(deepping(Undefined))),
      Command("deepping", Attempt(deepping(Str(<<"a", " ", "b">>)))),
      Command("createActivity", Attempt(createActivity(
          Obj(<< <<<<"i", "d">>, Str(<<"a", "1">>)>>, <<<<"t", "y", "p", "e">>, Str(<<"c", "a", "l", "l">>)>>,
                 <<<<"d", "i", "r", "e", "c", "t", "i", "o", "n">>, Str(<<"i", "n", "b", "o", "u", "n", "d">>)>>, <<<<"a", "t">>, Str(<<"n", "o", "w">>)>>,
                 <<<<"u", "s", "e", "r", "I", "d">>, Str(<<"u", "1">>)>>, <<<<"s", "u", "m", "m", "a", "r", "y">>, Str(<<"h", "i">>)>>,
                 <<<<"n", "e", "x", "t", "F", "o", "l", "l", "o", "w", "U", "p", "A", "t">>, Undefined>>, <<<<"l", "e", "a", "d", "I", "d">>, Undefined>> >>)))),
      Command("getNote", Attempt(getNote(Str(<<"u", "1">>), <<"n", "1">>))),
      Command("listNotes", Attempt(listNotes(
          ListOptions(Num(2), Num(10), Undefined, Str(<<"x", "&", "y">>), Str(<<"u", "1">>))))),
      Command("listLeads", Attempt(listLeads(
          LeadOptions(Num(1), Undefined, Str(<<"n", "a", "m", "e">>), Str(<<"7">>))))),
      Command("getLead", Attempt(getLead(<<"7">>))),
      Command("updateNote", Attempt(updateNote(Str(<<"u", "1">>), <<"n", "1">>, Str(<<"s", "a", "y", " ", "\"", "h", "i", "\"">>)))),
      Command("deleteNote", Attempt(deleteNote(<<"n", "1">>))),
      Command("listActivities", Attempt(listActivities(
          PageOptions(Num(1), Undefined, Str(<<"u", "1">>), Undefined, Undefined, Undefined)))),
      Command("listVisits", Attempt(listVisits(
          PageOptions(Undefined, Num(5), Str(<<"L", "1">>), Undefined, Str(<<"p", "1">>), Undefined)))),
      Command("listLogs", Attempt(listLogs(
          PageOptions(Undefined, Undefined, Undefined, Str(<<"L", "1">>), Undefined, Str(<<"u", "1">>))))),
      Command("deleteVisit", Attempt(deleteVisit(<<"v", "1">>))),
      Command("updateLead", updateLead(<<"L", "1">>, <<"l", ".", "j", "s", "o", "n">>)),
      Command("updateLead", updateLead(<<"L", "1">>, <<"b", "a", "d", ".", "j", "s", "o", "n">>)),
      Command("updateLead", updateLead(<<"L", "1">>, <<"x", ".", "j", "s", "o", "n">>)),
      NoteCommand(NoteOptions(
          Str(<<"u", "1">>), Str(<<"t", "e", "x", "t", "/", "p", "l", "a", "i", "n">>), Str(<<"h", "e", "l", "l", "o">>), Undefined, Undefined,
          NoteModels)),
      NoteCommand(NoteOptions(
          Str(<<"u", "1">>), Str(<<"t", "e", "x", "t", "/", "p", "l", "a", "i", "n">>), Str(<<"h", "e", "l", "l", "o">>), Str(<<"n", ".", "t", "x", "t">>), Str(<<"r">>),
          NoteModels)),
      NoteCommand(NoteOptions(
          Str(<<"u", "1">>), Str(<<"i", "m", "a", "g", "e", "/", "p", "n", "g">>), Str(<<"h", "e", "l", "l", "o">>), Str(<<"b", ".", "b", "i", "n">>), Undefined,
          Undefined)),
      NoteCommand(NoteOptions(
          Str(<<"u", "1">>), Str(<<"i", "m", "a", "g", "e", "/", "p", "n", "g">>), Undefined, Str(<<"n", ".", "t", "x", "t">>), Undefined,
          Undefined)),
      NoteCommand(NoteOptions(
          Str(<<"u", "1">>), Str(<<"t", "e", "x", "t", "/", "p", "l", "a", "i", "n">>), Str(<<"h", "e", "l", "l", "o">>), Str(<<"x", ".", "t", "x", "t">>), Undefined,
          Undefined)),
      NoteCommand(NoteOptions(
          Str(<<"u", "1">>), Str(<<"t", "e", "x", "t", "/", "p", "l", "a", "i", "n">>), Undefined, Undefined, Undefined, Undefined)),
      NoteCommand(NoteOptions(
          Str(<<"u", "1">>), Str(<<"t", "e", "x", "t", "/", "p", "l", "a", "i", "n">>), Str(<<>>), Str(<<>>), Undefined, Undefined)),
      NoteCommand(NoteOptions(
          Str(<<"u", "1">>), Str(<<"t", "e", "x", "t", "/", "p", "l", "a", "i", "n">>), Str(<<>>), Undefined, Undefined, Undefined)) }
    \cup
    { Command("createLead", createLead(options, uuid, ms)) :
        options \in { NoLead,
                      [NoLead EXCEPT !.filePath = Str(<<"l", ".", "j", "s", "o", "n">>),
                                     !.email = Str(<<"a", "@", "b">>),
                                     !.phone = Str(<<"5">>),
                                     !.sourceChannel = Str(<<"w", "e", "b", "_", "f", "o", "r", "m">>),
                                     !.sourceName = Str(<<"s", "i", "t", "e">>),
                                     !.tags = Arr(<<Str(<<"x">>), Str(<<"y">>)>>)],
                      [NoLead EXCEPT !.filePath = Str(<<"b", "a", "d", ".", "j", "s", "o", "n">>)] },
        uuid \in Uuids }
    \cup
    { Command("createVisit", createVisit(options, uuid, ms)) :
        options \in { NoVisit,
                      [NoVisit EXCEPT !.filePath = Str(<<"l", ".", "j", "s", "o", "n">>),
                                      !.feedback = Str(<<"o", "k">>),
                                      !.attendees = Arr(<<Str(<<"A", "n", "n">>)>>)],
                      [NoVisit EXCEPT !.filePath = Str(<<"x", ".", "j", "s", "o", "n">>)] },
        uuid \in Uuids }

\* replies of the server to a command
CommandResponses ==
    { Response(200, TRUE, <<"a", "p", "p", "l", "i", "c", "a", "t", "i", "o", "n", "/", "j", "s", "o", "n">>, JsonBytes, TRUE),
      Response(200, TRUE, <<"a", "p", "p", "l", "i", "c", "a", "t", "i", "o", "n", "/", "j", "s", "o", "n">>, TextBytes, TRUE),
      Response(204, FALSE, <<>>, <<>>, TRUE),
      Response(299, TRUE, <<"a", "p", "p", "l", "i", "c", "a", "t", "i", "o", "n", "/", "j", "s", "o", "n">>, <<110, 117, 108, 108>>, TRUE),
      Response(199, TRUE, <<"a", "p", "p", "l", "i", "c", "a", "t", "i", "o", "n", "/", "j", "s", "o", "n">>, JsonBytes, TRUE),
      Response(300, TRUE, <<"a", "p", "p", "l", "i", "c", "a", "t", "i", "o", "n", "/", "j", "s", "o", "n">>, TextBytes, TRUE),
      Response(404, TRUE, <<"t", "e", "x", "t", "/", "p", "l", "a", "i", "n", ";", " ", "c", "h", "a", "r", "s", "e", "t", "=", "i", "s", "o", "-", "8", "8", "5", "9", "-", "1">>, CafeBytes, TRUE),
      Response(500, FALSE, <<>>, <<>>, TRUE),
      Response(200, TRUE, <<"t", "e", "x", "t", "/", "p", "l", "a", "i", "n", ";", " ", "c", "h", "a", "r", "s", "e", "t", "=", "k", "l", "i", "n", "g", "o", "n">>, JsonBytes, TRUE),
      Response(404, TRUE, <<"a", "p", "p", "l", "i", "c", "a", "t", "i", "o", "n", "/", "j", "s", "o", "n">>, TextBytes, FALSE) }

NextCommand ==
    \/ \E command \in Commands(now) : Invoke(command)
    \/ \E c \in Calls, random \in RandomBytes : ClientCall(c, random)
    \/ \E c \in Calls : Send(c)
    \/ \E c \in Calls, response \in CommandResponses : FetchResolve(c, response)
    \/ \E c \in Calls : FetchReject(c, FetchError)
    \/ \E c \in Calls : Decode(c)
    \/ \E c \in Calls : Settle(c)
    \/ Tick

SpecCommand == InitCommand /\ [][NextCommand]_vars


(***************************************************************************)
(* A caller of parseArgs: the function runs on an argument vector, one     *)
(* loop iteration at a time.                                               *)
(***************************************************************************)

MaxArgs == 3

\* process.argv: the runtime, the script, and the arguments
Argv(args) == <<<<"b", "u", "n">>, <<"s", "r", "c", "/", "c", "l", "i", ".", "t", "s">>>> \o args

ScanGlobal ==
    /\ scan.pc = "global"
    /\ scan' = scanGlobal(scan)
    /\ UNCHANGED <<signer, client, now, calls, sig, codec, handler, main>>

ScanParams ==
    /\ scan.pc = "params"
    /\ scan' = scanParams(scan)
    /\ UNCHANGED <<signer, client, now, calls, sig, codec, handler, main>>

ScanFinish ==
    /\ scan.pc = "finish"
    /\ scan' = scanFinish(scan)
    /\ UNCHANGED <<signer, client, now, calls, sig, codec, handler, main>>

InitArgs ==
    LET ArgTokens ==
            { <<"-", "-", "h", "e", "l", "p">>, <<"-", "h">>, <<"-", "-", "e", "c", "h", "o">>, <<"-">>, <<"x">>, <<"d", "e", "e", "p", "p", "i", "n", "g">>, <<"g", "e", "t", "-", "n", "o", "t", "e">> }
        Argvs == { Argv(args) : args \in SeqsUpTo(ArgTokens, MaxArgs) }
    IN
    /\ signer = [accessKeyId |-> AccessKeyId, accessSecret |-> GoodSecret]
    /\ client = [baseUrl |-> BaseUrl, verbose |-> FALSE]
    /\ now = ClockStart
    /\ calls = [c \in Calls |-> IdleCall]
    /\ sig = NoSig
    /\ codec = NoCodec
    /\ handler = NoCommand
    /\ main = NoMain
    /\ scan \in { scanStart(argv) : argv \in Argvs }

NextArgs == ScanGlobal \/ ScanParams \/ ScanFinish

SpecArgs == InitArgs /\ [][NextArgs]_vars /\ WF_vars(NextArgs)


(***************************************************************************)
(* The command line program: main() runs once on the arguments of the      *)
(* process.                                                                *)
(***************************************************************************)

\* no AuthSigner and no ApiClient has been constructed
NoSigner == [accessKeyId |-> <<>>, accessSecret |-> <<>>]
NoClient == [baseUrl |-> <<>>, verbose |-> FALSE]

\* lines 152-168 and the switch up to the call of the command
Main(argv, uuid) ==
    LET \* lines 152-387: main up to its first await, or to its return: the record
        \* of main, the objects it has constructed and the command it has called
        mainRun(argv0, uuid0, ms) ==
            LET \* line 163
                DefaultBaseUrl == <<"h", "t", "t", "p", "s", ":", "/", "/", "a", "p", "i", ".", "e", "x", "a", "m", "p", "l", "e", ".", "c", "o", "m">>
                NoConstruction ==
                    [ constructs |-> FALSE, accessKeyId |-> <<>>, accessSecret |-> <<>>,
                      baseUrl |-> <<>>, verbose |-> FALSE, invokes |-> FALSE,
                      command |-> Command("", Failure(<<>>)) ]
                \* lines 160-387, given the parsed arguments, the two credentials
                \* read and the command line's evaluation
                entered(parsed) ==
                    [ NoMain EXCEPT !.argv = argv0, !.global = parsed.global,
                                    !.command = parsed.command, !.params = parsed.params ]
                built(parsed, keyId, secret) ==
                    [ NoConstruction EXCEPT
                        !.constructs   = TRUE,
                        !.accessKeyId  = keyId.value.s,
                        !.accessSecret = secret.value.s,
                        !.baseUrl      = nullish(optionalString(parsed.global, <<"b", "a", "s", "e", "-", "u", "r", "l">>),
                                                 Str(DefaultBaseUrl)).s,
                        !.verbose      = getProperty(parsed.global, <<"v", "e", "r", "b", "o", "s", "e">>) = Bool(TRUE) ]
                afterRead(read, construction, keyId, secret, call) ==
                    IF ~keyId.ok
                    THEN [ main  |-> caught(read, Thrown("main", "Error", keyId.message)),
                           build |-> NoConstruction ]
                    ELSE IF ~secret.ok
                    THEN [ main  |-> caught(read, Thrown("main", "Error", secret.message)),
                           build |-> NoConstruction ]
                    ELSE IF ~call.ok
                    THEN [ main  |-> caught([ read EXCEPT !.constructed = TRUE ],
                                            Thrown("main", "Error", call.message)),
                           build |-> construction ]
                    ELSE [ main  |-> [ read EXCEPT !.pc = "awaiting", !.constructed = TRUE ],
                           build |-> [ construction EXCEPT !.invokes = TRUE,
                                                           !.command = call.command ] ]
                afterCredentials(parsed, keyId, secret) ==
                    afterRead([ entered(parsed) EXCEPT !.credentials = TRUE ],
                              built(parsed, keyId, secret), keyId, secret,
                              dispatch(parsed.command.s, parsed.params, uuid0, ms))
                afterParse(parsed) ==
                    IF truthy(getProperty(parsed.global, <<"h", "e", "l", "p">>)) \/ ~truthy(parsed.command)
                    THEN [ main  |-> [ entered(parsed) EXCEPT !.pc = "returned", !.usage = 1 ],
                           build |-> NoConstruction ]
                    ELSE afterCredentials(parsed,
                                          requiredString(parsed.global, <<"a", "c", "c", "e", "s", "s", "-", "k", "e", "y", "-", "i", "d">>),
                                          requiredString(parsed.global, <<"a", "c", "c", "e", "s", "s", "-", "s", "e", "c", "r", "e", "t">>))
            IN  afterParse(parseArgs(argv0))
    IN
    /\ main.pc = "none"
    /\ \E run \in {mainRun(argv, uuid, now)} :
           /\ main' = run.main
           /\ signer' = IF run.build.constructs
                        THEN [accessKeyId  |-> run.build.accessKeyId,
                              accessSecret |-> run.build.accessSecret]
                        ELSE signer
           /\ client' = IF run.build.constructs
                        THEN [baseUrl |-> run.build.baseUrl, verbose |-> run.build.verbose]
                        ELSE client
           /\ handler' = IF run.build.invokes THEN invoked(run.build.command) ELSE handler
    /\ UNCHANGED <<now, calls, sig, codec, scan>>

\* the awaited command has settled: main prints the payload, or catches the
\* error, prints it and sets the exit code
MainSettle ==
    LET \* the lines a command prints on success: a check mark line for some, and
        \* the payload
        successLogLines(name) ==
            IF name \in {"getNote", "listNotes", "listLeads", "getLead", "listActivities",
                         "listVisits", "listLogs"}
            THEN 1 ELSE 2
        \* lines 169-391: main after the command it awaits has settled
        mainSettled(m, h) ==
            IF h.pc = "thrown" THEN caught(m, h.error)
            ELSE [ m EXCEPT !.pc = "returned", !.stdout = successLogLines(h.name) ]
    IN
    /\ main.pc = "awaiting"
    /\ handler.pc \in {"returned", "thrown"}
    /\ main' = mainSettled(main, handler)
    /\ UNCHANGED <<signer, client, now, calls, sig, codec, handler, scan>>

InitCli ==
    /\ signer = NoSigner
    /\ client = NoClient
    /\ now = ClockStart
    /\ calls = [c \in Calls |-> IdleCall]
    /\ sig = NoSig
    /\ codec = NoCodec
    /\ handler = NoCommand
    /\ main = NoMain
    /\ scan = NoScan

Credentials == <<<<"-", "-", "a", "c", "c", "e", "s", "s", "-", "k", "e", "y", "-", "i", "d">>, AccessKeyId, <<"-", "-", "a", "c", "c", "e", "s", "s", "-", "s", "e", "c", "r", "e", "t">>, GoodSecret>>

\* argument vectors the program is started with
CliArgvs ==
    { Argv(<<>>),
      Argv(<<<<"-", "-", "h", "e", "l", "p">>>>),
      Argv(<<<<"x">>, <<"-", "-", "v", "e", "r", "b", "o", "s", "e">>>>),
      Argv(<<<<"-", "h">>, <<"d", "e", "e", "p", "p", "i", "n", "g">>>>),
      Argv(Credentials \o <<<<"-", "-", "h", "e", "l", "p">>, <<"d", "e", "e", "p", "p", "i", "n", "g">>>>),
      Argv(<<<<"-", "-", "h", "e", "l", "p">>, <<"p", "l", "e", "a", "s", "e">>>> \o Credentials \o <<<<"d", "e", "e", "p", "p", "i", "n", "g">>>>),
      Argv(<<<<"-", "-", "h", "e", "l", "p">>, <<>>>> \o Credentials \o <<<<"d", "e", "e", "p", "p", "i", "n", "g">>>>),
      Argv(<<<<"-", "h">>, <<>>, <<"g", "e", "t", "-", "l", "e", "a", "d">>>>),
      Argv(Credentials \o <<<<"d", "e", "e", "p", "p", "i", "n", "g">>, <<"-", "-", "h", "e", "l", "p">>>>),
      Argv(<<<<"d", "e", "e", "p", "p", "i", "n", "g">>>> \o Credentials),
      Argv(<<<<"-", "-", "a", "c", "c", "e", "s", "s", "-", "s", "e", "c", "r", "e", "t">>, GoodSecret, <<"d", "e", "e", "p", "p", "i", "n", "g">>>>),
      Argv(<<<<"-", "-", "a", "c", "c", "e", "s", "s", "-", "k", "e", "y", "-", "i", "d">>, AccessKeyId, <<"d", "e", "e", "p", "p", "i", "n", "g">>>>),
      Argv(<<<<"-", "-", "a", "c", "c", "e", "s", "s", "-", "k", "e", "y", "-", "i", "d">>, <<"-", "-", "a", "c", "c", "e", "s", "s", "-", "s", "e", "c", "r", "e", "t">>, GoodSecret, <<"d", "e", "e", "p", "p", "i", "n", "g">>>>),
      Argv(<<<<"-", "-", "a", "c", "c", "e", "s", "s", "-", "k", "e", "y", "-", "i", "d">>, AccessKeyId, <<"-", "-", "a", "c", "c", "e", "s", "s", "-", "s", "e", "c", "r", "e", "t">>, <<"d", "e", "e", "p", "p", "i", "n", "g">>>>),
      Argv(<<<<"-", "-", "a", "c", "c", "e", "s", "s", "-", "k", "e", "y", "-", "i", "d">>, <<>>, <<"-", "-", "a", "c", "c", "e", "s", "s", "-", "s", "e", "c", "r", "e", "t">>, GoodSecret, <<"d", "e", "e", "p", "p", "i", "n", "g">>>>),
      Argv(<<<<"-", "-", "a", "c", "c", "e", "s", "s", "-", "k", "e", "y", "-", "i", "d">>, AccessKeyId, <<"-", "-", "a", "c", "c", "e", "s", "s", "-", "s", "e", "c", "r", "e", "t">>, JunkSecret,
             <<"d", "e", "e", "p", "p", "i", "n", "g">>>>),
      Argv(<<<<"-", "-", "a", "c", "c", "e", "s", "s", "-", "k", "e", "y", "-", "i", "d">>, AccessKeyId, <<"-", "-", "a", "c", "c", "e", "s", "s", "-", "s", "e", "c", "r", "e", "t">>, BareSecret,
             <<"g", "e", "t", "-", "l", "e", "a", "d">>, <<"-", "-", "l", "e", "a", "d", "-", "i", "d">>, <<"7">>>>),
      Argv(Credentials \o <<<<"-", "v">>, <<"d", "e", "e", "p", "p", "i", "n", "g">>, <<"-", "-", "e", "c", "h", "o">>, <<"a", " ", "b">>>>),
      Argv(Credentials \o <<<<"g", "e", "t", "-", "n", "o", "t", "e">>, <<"-", "-", "o", "w", "n", "e", "r", "-", "i", "d">>, <<"u", "1">>>>),
      Argv(Credentials \o <<<<"g", "e", "t", "-", "n", "o", "t", "e">>, <<"-", "-", "o", "w", "n", "e", "r", "-", "i", "d">>, <<"u", "1">>, <<"-", "-", "n", "o", "t", "e", "-", "i", "d">>, <<"n", "1">>>>),
      Argv(Credentials \o <<<<"l", "i", "s", "t", "-", "n", "o", "t", "e", "s">>, <<"-", "-", "o", "w", "n", "e", "r", "-", "i", "d">>, <<"u", "1">>, <<"-", "-", "p", "a", "g", "e">>, <<"a", "b", "c">>>>),
      Argv(Credentials \o <<<<"l", "i", "s", "t", "-", "n", "o", "t", "e", "s">>, <<"-", "-", "o", "w", "n", "e", "r", "-", "i", "d">>, <<"u", "1">>, <<"-", "-", "p", "a", "g", "e">>, <<"2">>,
                            <<"-", "-", "i", "t", "e", "m", "s", "-", "p", "e", "r", "-", "p", "a", "g", "e">>, <<"1", "0">>, <<"-", "-", "s", "u", "m", "m", "a", "r", "y">>, <<"x", "&", "y">>>>),
      Argv(Credentials \o <<<<"l", "i", "s", "t", "-", "l", "e", "a", "d", "s">>, <<"-", "-", "p", "a", "g", "e">>, <<"1">>, <<"-", "-", "o", "r", "d", "e", "r", "-", "b", "y">>, <<"n", "a", "m", "e">>,
                            <<"-", "-", "l", "e", "a", "d", "-", "i", "d">>, <<"7">>>>),
      Argv(Credentials \o <<<<"l", "i", "s", "t", "-", "a", "c", "t", "i", "v", "i", "t", "i", "e", "s">>, <<"-", "-", "i", "t", "e", "m", "s", "-", "p", "e", "r", "-", "p", "a", "g", "e">>, <<"t", "e", "n">>>>),
      Argv(Credentials \o <<<<"l", "i", "s", "t", "-", "v", "i", "s", "i", "t", "s">>, <<"-", "-", "l", "e", "a", "d", "-", "i", "d">>, <<"L", "1">>>>),
      Argv(Credentials \o <<<<"l", "i", "s", "t", "-", "l", "o", "g", "s">>, <<"-", "-", "o", "w", "n", "e", "r", "-", "i", "d">>, <<"u", "1">>>>),
      Argv(Credentials \o <<<<"c", "r", "e", "a", "t", "e", "-", "a", "c", "t", "i", "v", "i", "t", "y">>, <<"-", "-", "t", "y", "p", "e">>, <<"f", "a", "x">>, <<"-", "-", "d", "i", "r", "e", "c", "t", "i", "o", "n">>,
                            <<"i", "n", "b", "o", "u", "n", "d">>, <<"-", "-", "u", "s", "e", "r", "-", "i", "d">>, <<"u", "1">>, <<"-", "-", "s", "u", "m", "m", "a", "r", "y">>, <<"h", "i">>>>),
      Argv(Credentials \o <<<<"c", "r", "e", "a", "t", "e", "-", "a", "c", "t", "i", "v", "i", "t", "y">>, <<"-", "-", "i", "d">>, <<"a", "1">>, <<"-", "-", "t", "y", "p", "e">>, <<"c", "a", "l", "l">>,
                            <<"-", "-", "d", "i", "r", "e", "c", "t", "i", "o", "n">>, <<"i", "n", "b", "o", "u", "n", "d">>, <<"-", "-", "a", "t">>, <<"n", "o", "w">>,
                            <<"-", "-", "u", "s", "e", "r", "-", "i", "d">>, <<"u", "1">>, <<"-", "-", "s", "u", "m", "m", "a", "r", "y">>, <<"h", "i">>>>),
      Argv(Credentials \o <<<<"c", "r", "e", "a", "t", "e", "-", "l", "e", "a", "d">>, <<"-", "-", "t", "e", "n", "a", "n", "t", "-", "i", "d">>, <<"t", "1">>, <<"-", "-", "o", "w", "n", "e", "r", "-", "u", "s", "e", "r", "-", "i", "d">>,
                            <<"u", "1">>, <<"-", "-", "p", "i", "p", "e", "l", "i", "n", "e">>, <<"l", "e", "a", "s", "e">>, <<"-", "-", "n", "a", "m", "e">>, <<"A", "n", "n">>>>),
      Argv(Credentials \o <<<<"c", "r", "e", "a", "t", "e", "-", "l", "e", "a", "d">>, <<"-", "-", "t", "e", "n", "a", "n", "t", "-", "i", "d">>, <<"t", "1">>, <<"-", "-", "o", "w", "n", "e", "r", "-", "u", "s", "e", "r", "-", "i", "d">>,
                            <<"u", "1">>, <<"-", "-", "p", "i", "p", "e", "l", "i", "n", "e">>, <<"b", "u", "y">>, <<"-", "-", "n", "a", "m", "e">>, <<"A", "n", "n">>>>),
      Argv(Credentials \o <<<<"c", "r", "e", "a", "t", "e", "-", "l", "e", "a", "d">>, <<"-", "-", "t", "e", "n", "a", "n", "t", "-", "i", "d">>, <<"t", "1">>, <<"-", "-", "o", "w", "n", "e", "r", "-", "u", "s", "e", "r", "-", "i", "d">>,
                            <<"u", "1">>, <<"-", "-", "p", "i", "p", "e", "l", "i", "n", "e">>, <<"b", "u", "y">>, <<"-", "-", "n", "a", "m", "e">>, <<"A", "n", "n">>,
                            <<"-", "-", "f", "i", "l", "e">>, <<"b", "a", "d", ".", "j", "s", "o", "n">>>>),
      Argv(Credentials \o <<<<"u", "p", "d", "a", "t", "e", "-", "l", "e", "a", "d">>, <<"-", "-", "l", "e", "a", "d", "-", "i", "d">>, <<"L", "1">>, <<"-", "-", "f", "i", "l", "e">>, <<"l", ".", "j", "s", "o", "n">>>>),
      Argv(Credentials \o <<<<"c", "r", "e", "a", "t", "e", "-", "v", "i", "s", "i", "t">>, <<"-", "-", "l", "e", "a", "d", "-", "i", "d">>, <<"L", "1">>, <<"-", "-", "u", "s", "e", "r", "-", "i", "d">>, <<"u", "1">>>>),
      Argv(Credentials \o <<<<"c", "r", "e", "a", "t", "e", "-", "v", "i", "s", "i", "t">>, <<"-", "-", "l", "e", "a", "d", "-", "i", "d">>, <<"L", "1">>, <<"-", "-", "u", "s", "e", "r", "-", "i", "d">>, <<"u", "1">>,
                            <<"-", "-", "p", "r", "o", "p", "e", "r", "t", "y", "-", "i", "d">>, <<"p", "1">>, <<"-", "-", "a", "t", "t", "e", "n", "d", "e", "e", "s">>, <<"A", "n", "n", ",", " ", "B", "o", "b">>>>),
      Argv(Credentials \o <<<<"d", "e", "l", "e", "t", "e", "-", "v", "i", "s", "i", "t">>, <<"v", "1">>>>),
      Argv(Credentials \o <<<<"d", "e", "l", "e", "t", "e", "-", "v", "i", "s", "i", "t">>>>),
      Argv(Credentials \o <<<<"c", "r", "e", "a", "t", "e", "-", "n", "o", "t", "e">>, <<"-", "-", "o", "w", "n", "e", "r", "-", "i", "d">>, <<"u", "1">>, <<"-", "-", "t", "y", "p", "e">>,
                            <<"t", "e", "x", "t", "/", "p", "l", "a", "i", "n">>>>),
      Argv(Credentials \o <<<<"c", "r", "e", "a", "t", "e", "-", "n", "o", "t", "e">>, <<"-", "-", "o", "w", "n", "e", "r", "-", "i", "d">>, <<"u", "1">>, <<"-", "-", "t", "y", "p", "e">>,
                            <<"t", "e", "x", "t", "/", "p", "l", "a", "i", "n">>, <<"-", "-", "d", "a", "t", "a">>, <<"h", "e", "l", "l", "o">>, <<"-", "-", "f", "i", "l", "e">>, <<"n", ".", "t", "x", "t">>>>),
      Argv(Credentials \o <<<<"u", "p", "d", "a", "t", "e", "-", "n", "o", "t", "e">>, <<"-", "-", "o", "w", "n", "e", "r", "-", "i", "d">>, <<"u", "1">>, <<"-", "-", "n", "o", "t", "e", "-", "i", "d">>, <<"n", "1">>,
                            <<"-", "-", "s", "u", "m", "m", "a", "r", "y">>>>),
      Argv(Credentials \o <<<<"u", "p", "d", "a", "t", "e", "-", "n", "o", "t", "e">>, <<"-", "-", "o", "w", "n", "e", "r", "-", "i", "d">>, <<"u", "1">>, <<"-", "-", "n", "o", "t", "e", "-", "i", "d">>, <<"n", "1">>,
                            <<"-", "-", "s", "u", "m", "m", "a", "r", "y">>, <<"s", "a", "y", " ", "\"", "h", "i", "\"">>>>),
      Argv(Credentials \o <<<<"d", "e", "l", "e", "t", "e", "-", "n", "o", "t", "e">>, <<"-", "-", "n", "o", "t", "e", "-", "i", "d">>, <<" ", "n", "1", " ">>>>),
      Argv(Credentials \o <<<<"d", "e", "l", "e", "t", "e", "-", "n", "o", "t", "e">>, <<"n", "1">>>>) }

\* replies of the server to the program
CliResponses ==
    { Response(200, TRUE, <<"a", "p", "p", "l", "i", "c", "a", "t", "i", "o", "n", "/", "j", "s", "o", "n">>, JsonBytes, TRUE),
      Response(200, TRUE, <<"a", "p", "p", "l", "i", "c", "a", "t", "i", "o", "n", "/", "j", "s", "o", "n">>, TextBytes, TRUE),
      Response(404, TRUE, <<"a", "p", "p", "l", "i", "c", "a", "t", "i", "o", "n", "/", "j", "s", "o", "n">>, TextBytes, TRUE),
      Response(500, FALSE, <<>>, <<>>, TRUE),
      Response(200, TRUE, <<"t", "e", "x", "t", "/", "p", "l", "a", "i", "n", ";", " ", "c", "h", "a", "r", "s", "e", "t", "=", "k", "l", "i", "n", "g", "o", "n">>, JsonBytes, TRUE) }

NextCli ==
    \/ \E argv \in CliArgvs, uuid \in Uuids : Main(argv, uuid)
    \/ \E c \in Calls, random \in RandomBytes : ClientCall(c, random)
    \/ \E c \in Calls : Send(c)
    \/ \E c \in Calls, response \in CliResponses : FetchResolve(c, response)
    \/ \E c \in Calls : FetchReject(c, FetchError)
    \/ \E c \in Calls : Decode(c)
    \/ \E c \in Calls : Settle(c)
    \/ MainSettle
    \/ Tick

SpecCli == InitCli /\ [][NextCli]_vars

(***************************************************************************)
(* Properties.                                                             *)
(***************************************************************************)

\* the lines of a string
lines(s) == split(s, NL)

\* the query component of an absolute URL: what follows the first '?'
urlQuery(href) ==
    IF indexOf(href, "?") = 0 THEN <<>> ELSE sliceFrom(href, indexOf(href, "?"))

\* the colon-separated fields of a header, the last three taken from the right
headerPartsOf(header, fields) ==
    [ scheme      |-> SubSeq(header, 1, 7),
      accessKeyId |-> join(SubSeq(fields, 1, Len(fields) - 3), <<":">>),
      signature   |-> fields[Len(fields) - 2],
      timestamp   |-> fields[Len(fields) - 1],
      nonce       |-> fields[Len(fields)] ]

headerParts(header) == headerPartsOf(header, split(sliceFrom(header, 7), ":"))

\* the rearrangements of a sequence
Rearrangements(s) ==
    {[i \in 1..Len(s) |-> s[f[i]]] : f \in Permutations(1..Len(s))}

HasNewline(s) == \E i \in 1..Len(s) : s[i] = NL

NoDefinedParams(params) ==
    ~params.present \/ \A i \in 1..Len(params.entries) : ~IsDefinedEntry(params.entries[i])

\* C1: for every request, the query component of the URL passed to fetch is
\* the query string that was passed to the signer and signed.
C1_SentQueryIsSignedQuery ==
    \A c \in Calls :
        calls[c].pc = "sent" =>
            /\ urlQuery(calls[c].fetch.url) = calls[c].sortedQueryString
            /\ urlQuery(calls[c].fetch.url) = lines(calls[c].auth.signingString)[3]

\* C2: the string whose SHA-256 enters the signing string is the body that
\* fetch transmits; an undefined or null body is signed as the empty string
\* and sent as no body, any other body is signed and sent as its JSON text.
C2_SignedBodyIsSentBody ==
    \A c \in Calls :
        calls[c].pc = "sent" =>
            LET hashLine == lines(calls[c].auth.signingString)[4]
                body     == calls[c].input.body
                sent     == calls[c].fetch
            IN  /\ hashLine = sha256Hex(IF sent.hasBody THEN sent.body ELSE <<>>)
                /\ body.t \in {"undefined", "null"} =>
                        /\ ~sent.hasBody
                        /\ hashLine = sha256Hex(<<>>)
                        /\ hashLine \notin {sha256Hex(<<"n", "u", "l", "l">>), sha256Hex(<<"{", "}">>)}
                /\ body.t \notin {"undefined", "null"} =>
                        /\ sent.hasBody
                        /\ sent.body = jsonStringify(body)

C2_Witness ==
    \E c \in Calls : calls[c].pc = "sent" /\ calls[c].input.body.t = "null"

\* C3: every header returned by generateAuthorizationHeader reads
\* 'LtBase <accessKeyId>:<signature>:<timestamp>:<nonce>', its timestamp and
\* nonce are the fifth and sixth line of the canonical string signed in that
\* call, and its signature is the signature of that canonical string.
C3_HeaderMatchesCanonicalString ==
    \A c \in Calls :
        calls[c].auth.ok =>
            LET header == calls[c].auth.header
                parts  == headerParts(header)
                signed == lines(calls[c].auth.signingString)
            IN  /\ header = <<"L", "t", "B", "a", "s", "e", " ">> \o signer.accessKeyId \o <<":">>
                                \o parts.signature \o <<":">> \o parts.timestamp
                                \o <<":">> \o parts.nonce
                /\ Len(signed) = 6
                /\ parts.timestamp = signed[5]
                /\ parts.nonce = signed[6]
                /\ parts.signature =
                        sign(calls[c].auth.signingString, signer.accessSecret).value

C3_Witness ==
    \E c \in Calls : calls[c].pc = "signed" /\ calls[c].auth.ok

\* C4: each call of generateAuthorizationHeader takes its timestamp from the
\* clock at the time of the call and its nonce from the bytes drawn in the
\* call; the signer keeps nothing between calls; every send is preceded by
\* exactly one header generation of the same request and carries its header.
C4_FreshPerCall ==
    [][ /\ signer' = signer
        /\ \A c \in Calls :
            /\ (calls[c].pc = "idle" /\ calls'[c].pc # "idle") =>
                   /\ calls'[c].auth.timestamp = now
                   /\ calls'[c].random \in RandomBytes
                   /\ calls'[c].auth.nonce = toBase64Url(calls'[c].random)
                   /\ calls'[c].auth.ok =>
                        /\ headerParts(calls'[c].auth.header).timestamp
                               = numberToString(now)
                        /\ headerParts(calls'[c].auth.header).nonce
                               = toBase64Url(calls'[c].random)
            /\ (calls[c].pc # "signed" /\ calls'[c].pc = "signed") =>
                   calls[c].pc = "idle"
            /\ (calls[c].pc # "sent" /\ calls'[c].pc = "sent") =>
                   /\ calls[c].pc = "signed"
                   /\ calls'[c].fetch.authorization = calls[c].auth.header
                   /\ headerParts(calls'[c].fetch.authorization).timestamp
                          = numberToString(calls[c].clock)
                   /\ headerParts(calls'[c].fetch.authorization).nonce
                          = toBase64Url(calls[c].random)
      ]_vars

C4_Witness ==
    \E c \in Calls : calls[c].pc = "sent" /\ calls[c].clock > ClockStart

\* C5: with a secret that does not start with 'SK_', every request fails in
\* the signer with the secret-format error and none reaches fetch.
C5_BadPrefixNeverFetches ==
    ~startsWith(signer.accessSecret, <<"S", "K", "_">>) =>
        \A c \in Calls :
            /\ calls[c].pc \in {"idle", "failed"}
            /\ ~calls[c].fetch.called
            /\ calls[c].pc = "failed" => calls[c].error = SecretError

C5_Witness ==
    \E c \in Calls :
        /\ ~startsWith(signer.accessSecret, <<"S", "K", "_">>)
        /\ calls[c].pc = "failed"
        /\ calls[c].error = SecretError

\* C6: the canonical query string does not depend on the insertion order of
\* the parameters: every rearrangement of the entries gives the string of
\* the request, and that string lists the keys in ascending order.
C6_QueryStringOrderIndependent ==
    \A c \in Calls :
        (calls[c].pc \in {"signed", "sent"} /\ calls[c].input.queryParams.present) =>
            LET entries == calls[c].input.queryParams.entries
                defined == SelectSeq(entries, IsDefinedEntry)
                sorted  == CHOOSE r \in Rearrangements(defined) :
                               \A i \in 1..Len(r), j \in 1..Len(r) :
                                   i < j => stringLess(r[i][1], r[j][1])
            IN  /\ \A r \in Rearrangements(entries) :
                       buildQueryString(Params(r)) = calls[c].sortedQueryString
                /\ calls[c].sortedQueryString =
                       urlSearchParamsToString(
                           [i \in 1..Len(sorted) |->
                               <<sorted[i][1], toStringValue(sorted[i][2])>>])

C6_Witness ==
    \E c \in Calls :
        /\ calls[c].pc = "signed"
        /\ \E i \in 1..Len(calls[c].input.queryParams.entries) :
             \E j \in 1..Len(calls[c].input.queryParams.entries) :
                /\ i < j
                /\ IsDefinedEntry(calls[c].input.queryParams.entries[i])
                /\ IsDefinedEntry(calls[c].input.queryParams.entries[j])
                /\ stringLess(calls[c].input.queryParams.entries[j][1],
                              calls[c].input.queryParams.entries[i][1])

\* C7: when the parameters are absent, empty or all undefined, the query
\* string is empty, the URL passed to fetch has no query component and no
\* bare '?', and the signer receives the empty query string.
C7_NoParamsNoQuery ==
    \A c \in Calls :
        (calls[c].pc = "sent" /\ NoDefinedParams(calls[c].input.queryParams)) =>
            /\ calls[c].sortedQueryString = <<>>
            /\ lines(calls[c].auth.signingString)[3] = <<>>
            /\ indexOf(calls[c].fetch.url, "?") = 0

\* C8: trimming strips exactly the trailing '/' and '?': the signed URL is
\* the longest prefix of the given URL that does not end in '/' or '?',
\* trimming it again changes nothing, and the URL followed by any run of
\* '/' and '?' has the same signing string.
C8_TrimStripsTrailingOnly ==
    sig.pc \in {"returned", "threw"} =>
        LET u == sig.input.url
            t == lines(sig.auth.signingString)[2]
        IN  /\ Len(t) <= Len(u)
            /\ SubSeq(u, 1, Len(t)) = t
            /\ ~endsWith(t, <<"/">>) /\ ~endsWith(t, <<"?">>)
            /\ \A k \in (Len(t) + 1)..Len(u) : u[k] \in {"/", "?"}
            /\ trimUrl(t) = t
            /\ \A run \in SeqsUpTo({"/", "?"}, MaxRun) :
                   constructSigningString(sig.input.method, u \o run,
                                          sig.input.queryString, sig.input.body,
                                          sig.auth.timestamp, sig.auth.nonce)
                       = sig.auth.signingString

C8_Witness ==
    /\ sig.pc = "returned"
    /\ Len(lines(sig.auth.signingString)[2]) < Len(sig.input.url)
    /\ Len(lines(sig.auth.signingString)[2]) >= 2
    /\ sig.input.url[1] \in {"/", "?"}

\* C9: the signing string is the upper-cased method, the trimmed URL, the
\* query string, the body hash, the decimal timestamp and the nonce, in this
\* order, joined by single newlines without a trailing newline; it has five
\* newlines when no argument contains one; methods that differ only in
\* letter case give the same first line.
C9_SigningStringLayout ==
    sig.pc \in {"returned", "threw"} =>
        LET s  == sig.auth.signingString
            in == sig.input
        IN  /\ s = toUpperCase(in.method) \o <<NL>> \o trimUrl(in.url) \o <<NL>>
                    \o in.queryString \o <<NL>> \o sha256Hex(in.body) \o <<NL>>
                    \o numberToString(sig.clock) \o <<NL>> \o toBase64Url(sig.random)
            /\ s[Len(s)] # NL
            /\ (~HasNewline(in.method) /\ ~HasNewline(in.url)
                    /\ ~HasNewline(in.queryString) /\ ~HasNewline(in.body)) =>
                   /\ Cardinality({i \in 1..Len(s) : s[i] = NL}) = 5
                   /\ Len(lines(s)) = 6
            /\ \A m \in SignerMethods :
                   toLowerCase(m) = toLowerCase(in.method) =>
                       lines(constructSigningString(m, in.url, in.queryString,
                                                    in.body, sig.auth.timestamp,
                                                    sig.auth.nonce))[1]
                           = lines(s)[1]

C9_Witness ==
    /\ sig.pc = "returned"
    /\ sig.input.method = <<"G", "e", "T">>
    /\ ~HasNewline(sig.input.queryString)
    /\ sig.input.queryString # <<>>

\* C10: request never fails because of the HTTP status: a response that can
\* be decoded gives an ApiResponse with the status of the response, whatever
\* the status, and isSuccess holds exactly for the statuses 200..299.
C10_StatusNeverRaises ==
    \A c \in Calls :
        /\ calls[c].pc = "done" =>
              /\ calls[c].result.status = calls[c].response.status
              /\ isSuccess(calls[c].result.status)
                    <=> calls[c].result.status \in 200..299
        /\ (calls[c].pc = "failed" /\ calls[c].response # NoResponse) =>
              /\ calls[c].error \in {CharsetError, BodyError}
              /\ ~decodeResponse([calls[c].response EXCEPT !.status = 200]).ok

C10_Witness ==
    \E c \in Calls : calls[c].pc = "done" /\ calls[c].result.status = 404

\* C11: when the content-type names a charset the runtime does not support,
\* request fails in the decode step with a decoding error that is not a
\* network error, and the raw bytes of the response stay reachable from what
\* the caller is handed.
C11_UnsupportedCharsetKeepsBytes ==
    \A c \in Calls :
        (calls[c].pc = "failed" /\ calls[c].error = CharsetError) =>
            /\ calls[c].error \notin FetchErrors
            /\ calls[c].rejection = ""
            /\ calls[c].raw.held
            /\ calls[c].raw.bytes = calls[c].response.bytes

\* the parameters of a content-type header: the ';'-separated parts after
\* the media type, without surrounding blanks
headerParameters(response) ==
    IF response.hasContentType
    THEN [i \in 1..(Len(split(response.contentType, ";")) - 1) |->
             trim(split(response.contentType, ";")[i + 1])]
    ELSE <<>>

IsCharsetParameter(p) ==
    /\ Len(p) > Len(<<"c", "h", "a", "r", "s", "e", "t", "=">>)
    /\ toLowerCase(SubSeq(p, 1, Len(<<"c", "h", "a", "r", "s", "e", "t", "=">>))) = <<"c", "h", "a", "r", "s", "e", "t", "=">>

\* the encoding label the header names, if it names one
namedCharset(response) ==
    LET named == SelectSeq(headerParameters(response), IsCharsetParameter)
    IN  IF named = <<>> THEN [present |-> FALSE, label |-> <<>>]
        ELSE [present |-> TRUE,
              label   |-> toLowerCase(trim(sliceFrom(named[1], Len(<<"c", "h", "a", "r", "s", "e", "t", "=">>))))]

C13_NoRetryOnNetworkFailure ==
    [][ \A c \in Calls :
            /\ (calls'[c].pc = "sent" /\ calls[c].pc # "sent") =>
                   /\ calls[c].pc = "signed"
                   /\ ~calls[c].fetch.called
                   /\ calls[c].rejection = ""
            /\ (calls[c].pc = "sent" /\ calls'[c].rejection # "") =>
                   /\ calls'[c].pc = "failed"
                   /\ calls'[c].error = calls'[c].rejection
                   /\ calls'[c].error \in FetchErrors
                   /\ calls'[c].result = NoResult
                   /\ calls'[c].fetch = calls[c].fetch
            /\ (calls[c].pc = "failed" /\ calls'[c] # calls[c]) =>
                   calls'[c] = IdleCall
            /\ (calls[c].pc \in {"sent", "responded", "done"}) =>
                   calls'[c].pc \notin {"signed"}
      ]_vars

C13_Witness ==
    \E c \in Calls :
        /\ calls[c].pc = "failed"
        /\ calls[c].rejection = AbortError
        /\ calls[c].error = AbortError
        /\ calls[c].fetch.called

\* the steps a request may take from one position to the next
PipelineSteps ==
    { <<"idle", "signed">>, <<"idle", "failed">>, <<"signed", "sent">>,
      <<"sent", "responded">>, <<"sent", "failed">>, <<"responded", "done">>,
      <<"responded", "failed">>, <<"done", "idle">>, <<"failed", "idle">> }

\* C14: a request canonicalizes query and body, then generates the header,
\* then sends, then decodes, then builds the ApiResponse: nothing is sent
\* before the header of the request exists, and an ApiResponse exists only
\* after the send and the decode have completed.
C14_StepsInOrder ==
    [][ \A c \in Calls :
            /\ calls'[c].pc # calls[c].pc =>
                   <<calls[c].pc, calls'[c].pc>> \in PipelineSteps
            /\ (calls[c].pc = "idle" /\ calls'[c].pc = "signed") =>
                   /\ calls'[c].sortedQueryString
                          = buildQueryString(calls'[c].input.queryParams)
                   /\ calls'[c].bodyString = bodyString(calls'[c].input.body)
                   /\ calls'[c].auth.header # <<>>
                   /\ lines(calls'[c].auth.signingString)[3]
                          = calls'[c].sortedQueryString
                   /\ lines(calls'[c].auth.signingString)[4]
                          = sha256Hex(calls'[c].bodyString)
                   /\ ~calls'[c].fetch.called
            /\ (calls[c].pc # "sent" /\ calls'[c].pc = "sent") =>
                   /\ calls[c].auth.ok
                   /\ calls[c].auth.header # <<>>
                   /\ calls'[c].fetch.called
                   /\ calls'[c].fetch.authorization = calls[c].auth.header
                   /\ calls'[c].response = NoResponse
            /\ (calls[c].pc # "done" /\ calls'[c].pc = "done") =>
                   /\ calls[c].response # NoResponse
                   /\ decodeResponse(calls[c].response).ok
                   /\ calls'[c].result =
                          apiResponse(calls[c].response.status,
                                      decodeResponse(calls[c].response).value)
            /\ calls'[c].result # NoResult => calls'[c].pc = "done"
      ]_vars

C14_Witness ==
    \E c \in Calls :
        /\ calls[c].pc = "done"
        /\ calls[c].result.body # <<>>
        /\ calls[c].console > 0

\* the header generateAuthorizationHeader returns for the request of a call,
\* computed from that call's own arguments, timestamp and random bytes
ownHeader(call) ==
    generateAuthorizationHeader(
        signer.accessKeyId, signer.accessSecret, call.input.method,
        urlWithoutQueryOf(requestUrl(call.input.path, client.baseUrl,
                                     buildQueryString(call.input.queryParams))),
        buildQueryString(call.input.queryParams), bodyString(call.input.body),
        call.clock, call.random).header

\* C15: when requests on one client interleave, every send carries the
\* header computed from its own method, URL, query, body, timestamp and
\* nonce; a step of one request changes no other request, and none changes
\* the credential or the client configuration; the ApiResponse of a request
\* is built from the reply to its own send.
C15_ConcurrentRequestsIndependent ==
    [][ /\ signer' = signer
        /\ client' = client
        /\ \A c \in Slots :
            /\ (calls[c].pc = "signed" /\ calls'[c].pc = "sent") =>
                   /\ calls'[c].fetch.authorization = ownHeader(calls[c])
                   /\ calls'[c].fetch.url =
                          urlToString(requestUrl(calls[c].input.path, client.baseUrl,
                                         buildQueryString(calls[c].input.queryParams)))
                   /\ calls'[c].fetch.method = calls[c].input.method
                   /\ calls'[c].fetch.body = bodyString(calls[c].input.body)
            /\ (calls[c].pc = "responded" /\ calls'[c].pc = "done") =>
                   calls'[c].result =
                       apiResponse(calls[c].response.status,
                                   decodeResponse(calls[c].response).value)
            /\ calls'[c] # calls[c] =>
                   \A d \in Slots \ {c} : calls'[d] = calls[d]
      ]_vars

C15_Witness ==
    \E c \in Slots, d \in Slots :
        /\ c # d
        /\ calls[c].pc = "sent"
        /\ calls[d].pc = "sent"
        /\ calls[c].input # calls[d].input
        /\ calls[c].clock # calls[d].clock
        /\ calls[c].random # calls[d].random
        /\ calls[c].fetch.authorization # calls[d].fetch.authorization

\* a call without its console output
withoutConsole(call) == [call EXCEPT !.console = 0]

\* C16: diagnostic mode changes the console output only: from the same
\* position, with the same header and the same reply, a request with
\* verbose set and one with verbose clear make the same fetch call and end
\* with the same ApiResponse or the same error.
C16_VerboseChangesOnlyConsole ==
    \A c \in Calls :
        /\ calls[c].pc = "signed" =>
              /\ withoutConsole(afterSend(calls[c], TRUE))
                     = withoutConsole(afterSend(calls[c], FALSE))
              /\ afterSend(calls[c], TRUE).fetch = afterSend(calls[c], FALSE).fetch
              /\ afterSend(calls[c], TRUE).console > afterSend(calls[c], FALSE).console
        /\ calls[c].pc = "responded" =>
              /\ withoutConsole(afterDecode(calls[c], TRUE,
                                            decodeResponse(calls[c].response)))
                     = withoutConsole(afterDecode(calls[c], FALSE,
                                                  decodeResponse(calls[c].response)))
        /\ calls[c].pc \in {"sent", "done", "failed"} =>
              /\ calls[c].console > 0 => client.verbose
              /\ (calls[c].fetch.called /\ client.verbose) => calls[c].console > 0

C16_Witness ==
    \E c \in Calls :
        /\ client.verbose
        /\ calls[c].pc = "responded"
        /\ calls[c].console > 0

HasSecretPrefix == startsWith(signer.accessSecret, <<"S", "K", "_">>)

\* C17: the secret is checked when a header is generated, not when the
\* signer is built: a signer exists for every secret and has raised nothing
\* while no request was made, and with a secret that lacks the 'SK_' prefix
\* every header generation raises the secret-format error.
C17_SecretCheckedAtSigning ==
    [][ /\ signer.accessSecret \in Secrets
        /\ \A c \in Calls :
            /\ calls[c].pc = "idle" => calls[c] = IdleCall
            /\ (~HasSecretPrefix /\ calls[c].pc = "idle" /\ calls'[c].pc # "idle") =>
                   /\ calls'[c].pc = "failed"
                   /\ ~calls'[c].auth.ok
                   /\ calls'[c].auth.error = SecretError
                   /\ calls'[c].error = SecretError
                   /\ calls'[c].auth.header = <<>>
            /\ calls'[c].error = SecretError => ~HasSecretPrefix
      ]_vars

C17_Witness ==
    \E c \in Calls :
        /\ signer.accessSecret = LowerSecret
        /\ calls[c].pc = "failed"
        /\ calls[c].error = SecretError
        /\ now > ClockStart

\* the secret has the prefix but what follows it is not a PKCS#8 Ed25519 key
\* (a PrivateKeyInfo for Ed25519 is the 16-byte header and the 32-byte seed)
HasUnusableKey ==
    /\ HasSecretPrefix
    /\ LET der == base64UrlToBuffer(sliceFrom(signer.accessSecret, 3))
       IN  \/ Len(der) # Len(Pkcs8Ed25519Prefix) + 32
           \/ SubSeq(der, 1, Len(Pkcs8Ed25519Prefix)) # Pkcs8Ed25519Prefix

C19_Base64UrlRoundTrip ==
    /\ codec.pc = "decoded" => codec.back = codec.buffer
    /\ codec.pc \in {"encoded", "decoded"} =>
          /\ Len(codec.text) = ((4 * Len(codec.buffer)) + 2) \div 3
          /\ Len(bufferToBase64(codec.buffer)) - Len(codec.text)
                 = (3 - (Len(codec.buffer) % 3)) % 3

C19_Witness ==
    /\ codec.pc = "decoded"
    /\ Len(codec.buffer) % 3 = 1
    /\ Len(codec.buffer) > 1
    /\ \E i \in 1..Len(codec.text) : codec.text[i] = "_"
    /\ \E i \in 1..Len(codec.text) : codec.text[i] = "-"

\* C20: the URL-safe base64 text of a buffer consists of letters, digits,
\* '-' and '_' only, so it holds no '+', '/', '=' or ':'; the text of 16
\* bytes, a nonce, has 22 characters.
C20_Base64UrlAlphabet ==
    codec.pc \in {"encoded", "decoded"} =>
        /\ \A i \in 1..Len(codec.text) :
               /\ IsAlphaNum(codec.text[i]) \/ codec.text[i] \in {"-", "_"}
               /\ codec.text[i] \notin {"+", "/", "=", ":"}
        /\ Len(codec.buffer) = Len(CHOOSE r \in RandomBytes : TRUE) =>
               /\ Len(codec.text) = 22
               /\ codec.buffer \in RandomBytes => codec.text = generateNonce(codec.buffer)

C20_Witness ==
    /\ codec.pc = "encoded"
    /\ codec.buffer \in RandomBytes
    /\ Len(codec.text) = 22
    /\ \E i \in 1..Len(codec.text) : codec.text[i] \in {"-", "_"}

\* Ed25519 verification of a base64url signature over a canonical string,
\* with the key pair of the credential: Ed25519 signatures are deterministic,
\* so a signature verifies exactly when it is the one the key gives
verifies(signature, canonicalString) ==
    base64UrlToBuffer(signature) =
        ed25519Sign(bufferFromString(canonicalString),
                    base64UrlToBuffer(sliceFrom(signer.accessSecret, 3)))

\* the canonical string of a call, from its arguments, timestamp and nonce
canonicalStringOf(call) ==
    constructSigningString(call.input.method, call.urlWithoutQuery,
                           call.sortedQueryString, call.bodyString,
                           call.clock, toBase64Url(call.random))

signatureOf(call) == headerParts(call.auth.header).signature

\* C21: two signings of the same method, URL, query and body with the same
\* credential but another nonce or timestamp give different signatures; the
\* signature made for a nonce and a timestamp verifies against the canonical
\* string built from them, and not against the one built from the others.
C21_SignatureBoundToNonceAndTimestamp ==
    \A c \in Slots :
        calls[c].auth.ok =>
            /\ verifies(signatureOf(calls[c]), canonicalStringOf(calls[c]))
            /\ \A d \in Slots \ {c} :
                   ( /\ calls[d].auth.ok
                     /\ calls[d].input = calls[c].input
                     /\ \/ calls[d].clock # calls[c].clock
                        \/ calls[d].random # calls[c].random ) =>
                       /\ signatureOf(calls[c]) # signatureOf(calls[d])
                       /\ ~verifies(signatureOf(calls[c]), canonicalStringOf(calls[d]))

C21_Witness ==
    \E c \in Slots, d \in Slots :
        /\ c # d
        /\ calls[c].auth.ok
        /\ calls[d].auth.ok
        /\ calls[c].input = calls[d].input
        /\ calls[c].clock = calls[d].clock
        /\ calls[c].random # calls[d].random

\* s occurs in t as a run of consecutive characters
occursIn(s, t) == \E i \in 0..(Len(t) - Len(s)) : SubSeq(t, i + 1, i + Len(s)) = s

\* C22: a command that got a response from the client throws exactly when the
\* status is outside 200-299, with an error that carries the context, the status
\* and the body; when the status is inside 200-299 it returns the parsed JSON
\* body, or null when the body is not JSON
C22_CommandsThrowOnNon2xx ==
    (handler.pc \in {"returned", "thrown"} /\ handler.response.present) =>
        LET status == handler.response.status
            body   == handler.response.body
        IN  IF status >= 200 /\ status <= 299
            THEN /\ handler.pc = "returned"
                 /\ ~handler.error.raised
                 /\ handler.value = IF jsonParse(body).ok THEN jsonParse(body).value
                                    ELSE Null
                 /\ body = <<"{", "\"", "a", "\"", ":", "1", "}">> => handler.value = Obj(<< <<<<"a">>, Num(1)>> >>)
                 /\ body \in {<<"n", "o">>, <<>>, <<"n", "u", "l", "l">>} => handler.value = Null
            ELSE /\ handler.pc = "thrown"
                 /\ handler.error.raised
                 /\ handler.error.reason = "Error"
                 /\ handler.error.message =
                        Context[handler.name] \o <<":", " ">> \o numberToString(status)
                            \o <<" ", "-", " ">> \o body
                 /\ startsWith(handler.error.message, Context[handler.name])
                 /\ occursIn(numberToString(status), handler.error.message)
                 /\ endsWith(handler.error.message, body)

C22_Witness ==
    /\ handler.pc = "thrown"
    /\ handler.name = "createLead"
    /\ handler.response.present
    /\ handler.response.status = 300
    /\ handler.error.message = <<"F", "a", "i", "l", "e", "d", " ", "t", "o", " ", "c", "r", "e", "a", "t", "e", " ", "l", "e", "a", "d", ":", " ", "3", "0", "0", " ", "-", " ", "n", "o">>

\* C26: createNote without a non-empty data string and without a file path
\* throws 'Either data or filePath must be provided' and makes no client call;
\* with a file path, the data of the note posted is the content of the file,
\* as UTF-8 text when the type starts with 'text/' and as base64 otherwise,
\* whatever the data argument is
C26_CreateNoteLoadsData ==
    (handler.name = "createNote" /\ handler.pc # "none") =>
        LET o == handler.options
        IN  /\ (~(o.data.t = "string" /\ o.data.s # <<>>)
                  /\ ~(o.filePath.t = "string" /\ o.filePath.s # <<>>)) =>
                   /\ handler.pc = "thrown"
                   /\ handler.error.message = <<"E", "i", "t", "h", "e", "r", " ", "d", "a", "t", "a", " ", "o", "r", " ", "f", "i", "l", "e", "P", "a", "t", "h", " ", "m", "u", "s", "t", " ", "b", "e", " ", "p", "r", "o", "v", "i", "d", "e", "d">>
                   /\ ~handler.called
                   /\ handler.request = NoRequest
                   /\ \A c \in Calls : calls[c] = IdleCall
            /\ \A f \in Files :
                   (o.filePath.t = "string" /\ o.filePath.s = f.path) =>
                       /\ handler.called
                       /\ handler.request.method = <<"P", "O", "S", "T">>
                       /\ getProperty(handler.request.body, <<"d", "a", "t", "a">>) =
                              Str(IF startsWith(o.type.s, <<"t", "e", "x", "t", "/">>)
                                  THEN utf8Decode(f.bytes)
                                  ELSE bufferToBase64(f.bytes))
                       /\ \A c \in Calls :
                              calls[c].pc = "signed" =>
                                  calls[c].bodyString = jsonStringify(handler.request.body)

C26_Witness ==
    /\ handler.name = "createNote"
    /\ handler.options.data = Str(<<"h", "e", "l", "l", "o">>)
    /\ handler.options.filePath = Str(<<"n", ".", "t", "x", "t">>)
    /\ \E c \in Calls :
           /\ calls[c].pc = "sent"
           /\ calls[c].fetch.body =
                  <<"{", "\"", "o", "w", "n", "e", "r", "_", "i", "d", "\"", ":", "\"", "u", "1", "\"", ",", "\"", "t", "y", "p", "e", "\"", ":", "\"", "t", "e", "x", "t", "/", "p", "l", "a", "i", "n", "\"", ",", "\"", "d", "a", "t", "a", "\"", ":", "\"", "h", "i", "\"", ",", "\"", "r", "o", "l", "e", "\"", ":", "\"", "r", "\"", ",", "\"", "m", "o", "d", "e", "l", "s", "\"", ":", "[", "{", "\"", "t", "y", "p", "e", "\"", ":", "\"", "l", "o", "g", "\"", "}", "]", "}">>

dashed(token) == Len(token) > 0 /\ token[1] = "-"

optionKey(token) == normalizeKey(stripDashes(token))

\* the position of the first command name in args, Len(args) + 1 without one
firstCommandAt(args) ==
    IF \E k \in 1..Len(args) : args[k] \in COMMANDS
    THEN CHOOSE k \in 1..Len(args) :
             args[k] \in COMMANDS /\ \A j \in 1..(k - 1) : args[j] \notin COMMANDS
    ELSE Len(args) + 1

\* a token after the command that is neither an option nor the value of one
IsPositionalAt(args, k, j) ==
    /\ j > k
    /\ ~dashed(args[j])
    /\ j = k + 1 \/ ~dashed(args[j - 1]) \/ args[j] \in COMMANDS

\* the position of the first positional after the command at k
firstPositionalAt(args, k) ==
    IF \E j \in 1..Len(args) : IsPositionalAt(args, k, j)
    THEN CHOOSE j \in 1..Len(args) :
             IsPositionalAt(args, k, j) /\ \A m \in 1..(j - 1) : ~IsPositionalAt(args, k, m)
    ELSE Len(args) + 1

\* what the option at j is given: the next token, or true
optionValueAt(args, j) ==
    IF j = Len(args) \/ dashed(args[j + 1]) \/ args[j + 1] \in COMMANDS
    THEN Bool(TRUE)
    ELSE Str(args[j + 1])

\* obj holds the options of args at positions lo..hi, the last of a key
\* winning; the value of a key of keys is left open
recordsOptions(obj, keys, args, lo, hi) ==
    \A j \in lo..hi :
        dashed(args[j]) =>
            /\ hasProperty(obj, optionKey(args[j]))
            /\ (/\ optionKey(args[j]) \notin keys
                /\ \A m \in (j + 1)..hi :
                       dashed(args[m]) => optionKey(args[m]) # optionKey(args[j]))
                   => getProperty(obj, optionKey(args[j])) = optionValueAt(args, j)

\* every property of obj other than those of keys comes from an option of
\* args at lo..hi
recordsOnlyOptions(obj, keys, args, lo, hi) ==
    \A p \in 1..Len(obj.o) :
        obj.o[p][1] \notin keys =>
            \E j \in lo..hi : dashed(args[j]) /\ optionKey(args[j]) = obj.o[p][1]

\* no property of obj other than those of keys holds a string that starts
\* with '-' or is a command name
holdsNoOptionOrCommand(obj, keys) ==
    \A p \in 1..Len(obj.o) :
        obj.o[p][1] \notin keys =>
            \/ obj.o[p][2] = Bool(TRUE)
            \/ /\ obj.o[p][2].t = "string"
               /\ ~dashed(obj.o[p][2].s)
               /\ obj.o[p][2].s \notin COMMANDS

C24_Returned ==
    scan.pc = "returned" =>
        LET args == scan.args
            k    == firstCommandAt(args)
            q    == firstPositionalAt(args, k)
        IN  /\ scan.command = (IF k <= Len(args) THEN Str(args[k]) ELSE Undefined)
            /\ recordsOptions(scan.global,
                              IF k > Len(args) THEN {<<"h", "e", "l", "p">>} ELSE {},
                              args, 1, k - 1)
            /\ recordsOnlyOptions(scan.global,
                                  IF k > Len(args) THEN {<<"h", "e", "l", "p">>} ELSE {},
                                  args, 1, k - 1)
            /\ recordsOptions(scan.params,
                              IF q <= Len(args) THEN {<<"_">>} ELSE {},
                              args, k + 1, q - 1)
            /\ recordsOnlyOptions(scan.params,
                                  IF q <= Len(args) THEN {<<"_">>} ELSE {},
                                  args, k + 1, q - 1)
            /\ holdsNoOptionOrCommand(scan.global, {})
            /\ holdsNoOptionOrCommand(scan.params,
                                      IF q <= Len(args) THEN {<<"_">>} ELSE {})

C24_Bounded ==
    /\ scan.i <= Len(scan.args)
    /\ scan.iterations <= Len(scan.args)
    /\ scan.pc = "global" => scan.params = Obj(<<>>)

C24_Advances ==
    (scan.pc \in {"global", "params"} /\ scan.i < Len(scan.args)) =>
        /\ scan'.iterations = scan.iterations + 1
        /\ scan'.i >= scan.i + 1 \/ scan'.pc # scan.pc
        /\ scan.pc = "global" => scan'.params = scan.params
        /\ scan.pc = "params" => scan'.global = scan.global

\* C24: parseArgs returns for every argument vector: an iteration of either
\* loop moves the index forward by one or more, or leaves the loop; the options
\* before the first command name are recorded in global and nowhere else, those
\* after it in params and nowhere else; an option followed by a token that
\* starts with '-' or is a command name is recorded as true
C24_ParseArgsTerminates ==
    /\ [](C24_Bounded /\ C24_Returned)
    /\ [][C24_Advances]_vars
    /\ <>(scan.pc = "returned")

C24_Witness ==
    /\ scan.pc = "returned"
    /\ scan.args = <<<<"-", "-", "e", "c", "h", "o">>, <<"g", "e", "t", "-", "n", "o", "t", "e">>, <<"-", "h">>>>
    /\ scan.global = Obj(<< <<<<"e", "c", "h", "o">>, Bool(TRUE)>> >>)
    /\ scan.command = Str(<<"g", "e", "t", "-", "n", "o", "t", "e">>)
    /\ scan.params = Obj(<< <<<<"h", "e", "l", "p">>, Bool(TRUE)>> >>)
    /\ scan.iterations = 3

\* the arguments main was started with
mainArgs == SubSeq(main.argv, 3, Len(main.argv))

\* a help option stands before the command name, or where there is no
\* command name, anywhere
HelpBeforeCommand ==
    \E j \in 1..(firstCommandAt(mainArgs) - 1) : mainArgs[j] \in {<<"-", "-", "h", "e", "l", "p">>, <<"-", "h">>}

NoCommandGiven == firstCommandAt(mainArgs) > Len(mainArgs)

\* nothing beyond the usage text: no credential read, no signer, client or
\* handler constructed, no request started, exit code 0
OnlyUsagePrinted ==
    /\ main.pc = "returned"
    /\ main.usage = 1
    /\ ~main.credentials
    /\ ~main.constructed
    /\ signer = NoSigner
    /\ client = NoClient
    /\ handler = NoCommand
    /\ \A c \in Calls : calls[c] = IdleCall
    /\ main.stdout = 0
    /\ main.stderr = NoError
    /\ main.exitCode = 0
    /\ ~main.rejected

\* C23: when the arguments name no command, or a help option (--help, -h)
\* stands among the options before the command, main prints the usage text and
\* returns: it reads no credential, constructs no signer and no client, makes
\* no request, and the exit code stays 0
C23_HelpPrintsUsage ==
    (main.pc # "none" /\ (NoCommandGiven \/ HelpBeforeCommand)) => OnlyUsagePrinted

\* the option key of obj is absent, the flag true, or the empty string
Valueless(obj, key) ==
    ~(getProperty(obj, key).t = "string" /\ getProperty(obj, key).s # <<>>)

\* main has caught an error with this message before it constructed or
\* called anything
FailedBeforeConstruction(message) ==
    /\ main.pc = "returned"
    /\ main.exitCode = 1
    /\ main.stderr.raised
    /\ main.stderr.message = message
    /\ ~main.constructed
    /\ signer = NoSigner
    /\ client = NoClient
    /\ handler = NoCommand
    /\ \A c \in Calls : calls[c] = IdleCall

\* main has caught an error with this message before it called a command
FailedBeforeCommand(message) ==
    /\ main.pc = "returned"
    /\ main.exitCode = 1
    /\ main.stderr.raised
    /\ main.stderr.message = message
    /\ handler = NoCommand
    /\ \A c \in Calls : calls[c] = IdleCall

CredentialsGiven ==
    ~Valueless(main.global, <<"a", "c", "c", "e", "s", "s", "-", "k", "e", "y", "-", "i", "d">>) /\ ~Valueless(main.global, <<"a", "c", "c", "e", "s", "s", "-", "s", "e", "c", "r", "e", "t">>)

\* C25: every error raised while main runs a command is caught by main, which
\* prints it and sets the exit code to 1, and main never rejects; without a
\* value for --access-key-id or --access-secret the error is raised before a
\* signer or client is constructed and before a request is made
C25_MainCatchesErrors ==
    /\ ~main.rejected
    /\ main.exitCode \in {0, 1}
    /\ main.pc \in {"none", "awaiting"} => main.exitCode = 0 /\ ~main.stderr.raised
    /\ main.pc = "returned" =>
           /\ main.exitCode = 1 <=> main.stderr.raised
           /\ main.exitCode = 0 => main.usage = 1 \/ handler.pc = "returned"
           /\ handler.pc = "thrown" =>
                  /\ main.exitCode = 1
                  /\ main.stderr = handler.error
                  /\ main.stdout = 0
    /\ (main.pc # "none" /\ main.usage = 0) =>
           /\ Valueless(main.global, <<"a", "c", "c", "e", "s", "s", "-", "k", "e", "y", "-", "i", "d">>) =>
                  FailedBeforeConstruction(<<"M", "i", "s", "s", "i", "n", "g", " ", "r", "e", "q", "u", "i", "r", "e", "d", " ", "o", "p", "t", "i", "o", "n", " ", "-", "-", "a", "c", "c", "e", "s", "s", "-", "k", "e", "y", "-", "i", "d">>)
           /\ (~Valueless(main.global, <<"a", "c", "c", "e", "s", "s", "-", "k", "e", "y", "-", "i", "d">>)
                 /\ Valueless(main.global, <<"a", "c", "c", "e", "s", "s", "-", "s", "e", "c", "r", "e", "t">>)) =>
                  FailedBeforeConstruction(<<"M", "i", "s", "s", "i", "n", "g", " ", "r", "e", "q", "u", "i", "r", "e", "d", " ", "o", "p", "t", "i", "o", "n", " ", "-", "-", "a", "c", "c", "e", "s", "s", "-", "s", "e", "c", "r", "e", "t">>)
           /\ (CredentialsGiven /\ main.command = Str(<<"g", "e", "t", "-", "n", "o", "t", "e">>)
                 /\ ~Valueless(main.params, <<"o", "w", "n", "e", "r", "-", "i", "d">>)
                 /\ Valueless(main.params, <<"n", "o", "t", "e", "-", "i", "d">>)) =>
                  FailedBeforeCommand(<<"M", "i", "s", "s", "i", "n", "g", " ", "r", "e", "q", "u", "i", "r", "e", "d", " ", "o", "p", "t", "i", "o", "n", " ", "-", "-", "n", "o", "t", "e", "-", "i", "d">>)
           /\ (CredentialsGiven /\ main.command = Str(<<"l", "i", "s", "t", "-", "n", "o", "t", "e", "s">>)
                 /\ ~Valueless(main.params, <<"o", "w", "n", "e", "r", "-", "i", "d">>)
                 /\ getProperty(main.params, <<"p", "a", "g", "e">>) = Str(<<"a", "b", "c">>)) =>
                  FailedBeforeCommand(<<"I", "n", "v", "a", "l", "i", "d", " ", "n", "u", "m", "b", "e", "r", " ", "f", "o", "r", " ", "-", "-", "p", "a", "g", "e", ":", " ", "a", "b", "c">>)
           /\ (CredentialsGiven /\ main.command = Str(<<"c", "r", "e", "a", "t", "e", "-", "a", "c", "t", "i", "v", "i", "t", "y">>)
                 /\ getProperty(main.params, <<"t", "y", "p", "e">>) = Str(<<"f", "a", "x">>)) =>
                  FailedBeforeCommand(
                      <<"I", "n", "v", "a", "l", "i", "d", " ", "v", "a", "l", "u", "e", " ", "f", "o", "r", " ", "-", "-", "t", "y", "p", "e", ".", " ", "A", "l", "l", "o", "w", "e", "d", ":", " ", "c", "a", "l", "l", ",", " ", "l", "i", "n", "e", ",", " ", "e", "m", "a", "i", "l", ",", " ", "v", "i", "s", "i", "t", ",", " ", "n", "o", "t", "e">>)

C25_Witness ==
    /\ main.pc = "returned"
    /\ main.command = Str(<<"g", "e", "t", "-", "l", "e", "a", "d">>)
    /\ signer.accessSecret = BareSecret
    /\ handler.pc = "thrown"
    /\ handler.error.reason = SecretError
    /\ main.stderr = handler.error
    /\ main.exitCode = 1

=============================================================================
